---- MODULE Spec2Model ----
(***************************************************************************)
(* Verification model of megaloader: the domain resolver, the download     *)
(* orchestrators and the lazy, paginated extractors.                       *)
(*                                                                         *)
(* Strings are TLC strings; Len, SubSeq and \o act on them character-wise. *)
(***************************************************************************)
EXTENDS Integers, Sequences, FiniteSets, TLC

VARIABLES
    registry,     \* PLUGIN_REGISTRY: sequence of <<domain, plugin>> in insertion order
    rq,           \* the last resolver request: how it was made and from which parts
    rs,           \* the last resolver outcome
    orchestrator, \* which batch loop runs: "cli" (_download_with_progress) or "api" (download_items)
    flat,         \* the CLI's flat flag: TRUE disables grouping by collection
    items,        \* the batch: a sequence of DownloadItems
    transfer,     \* what the server does for each download_url
    fs0,          \* the filesystem when the batch starts
    fs,           \* the filesystem: path -> content, Absent when there is no file
    idx,          \* number of loop iterations of the batch that have run
    pc,           \* "loop" while the batch loop runs, "done" after it
    success_count,\* CLI success_count / length of the API's downloaded list
    failed_count, \* CLI failed_count / length of the API's failed list
    downloaded,   \* API: downloaded paths, in order
    failed,       \* filenames reported as failed, in order
    requests,     \* number of HTTP requests issued so far
    result,       \* how the batch ended
    last,         \* the last download_file call: its destination and what it did
    adapter,      \* the plugin whose extract() runs: "thothub_to" or "cyberdrop"
    gen,          \* the generator returned by extract(): none, created, running,
                  \* suspended (at a yield), finished, failed, closed
    consumer,     \* the caller: idle, pulling (inside next()), stopped, done
    page,         \* ThothubTO: the page counter; Cyberdrop: 1 once the album is fetched
    links,        \* the links of the listing page being iterated
    li,           \* how many of them the for loop has consumed
    seen,         \* ThothubTO: the seen set
    new_on_page,  \* how many links of the current page were not seen before
    yielded,      \* the items handed to the consumer, in order
    reqlog,       \* the HTTP requests issued, in order
    bunkr,        \* Bunkr._fetch_direct_url: the API response, the filename, the result
    sanitize_call, \* sanitize_for_filesystem: its argument, whether it returned, its result
    api,          \* the /download endpoint: where it is, sizes probed, what it did and answered
    extract_call, \* extract(url) iterated: the URL, the plugin made, the error raised
    session,      \* one request of the plugin session: method, retries left, attempts, outcome
    collect,      \* extract_items: the source, items pulled and kept, how it ended
    legacy,       \* legacy download(): how it prepared, what each download_file does, its return value
    constructed,  \* DownloadItem(...): the objects that exist, the last call and how it ended
    bunkr_run,    \* Bunkr extract()/export() iterated: the URL path, what each fetch does, items yielded, error raised
    cipher,       \* ThothubTO: the license code, the hash, the key derived and the deobfuscated hash
    throttle,     \* Cyberdrop instances: the monotonic clock, each _last_api_call_time, the call in progress
    contain       \* one item of a batch: the orchestrator, the item, the destination computed for it

resolverVars == <<registry, rq, rs>>

downloadVars == <<orchestrator, flat, items, transfer, fs0, fs, idx, pc, success_count,
                  failed_count, downloaded, failed, requests, result, last>>

extractVars == <<adapter, gen, consumer, page, links, li, seen, new_on_page,
                 yielded, reqlog>>

\* everything a step of one component leaves alone
notResolver == <<downloadVars, extractVars, bunkr, sanitize_call, api, extract_call, session, collect, legacy, constructed, bunkr_run, cipher, throttle, contain>>

notDownload == <<resolverVars, extractVars, bunkr, sanitize_call, api, extract_call, session, collect, legacy, constructed, bunkr_run, cipher, throttle, contain>>

notExtract == <<resolverVars, downloadVars, bunkr, sanitize_call, api, extract_call, session, collect, legacy, constructed, bunkr_run, cipher, throttle, contain>>

notBunkr == <<resolverVars, downloadVars, extractVars, sanitize_call, api, extract_call, session, collect, legacy, constructed, bunkr_run, cipher, throttle, contain>>

notSanitize == <<resolverVars, downloadVars, extractVars, bunkr, api, extract_call, session, collect, legacy, constructed, bunkr_run, cipher, throttle, contain>>

notApi == <<resolverVars, downloadVars, extractVars, bunkr, sanitize_call, extract_call, session, collect, legacy, constructed, bunkr_run, cipher, throttle, contain>>

notExtractCall == <<resolverVars, downloadVars, extractVars, bunkr, sanitize_call, api, session, collect, legacy, constructed, bunkr_run, cipher, throttle, contain>>

notSession == <<resolverVars, downloadVars, extractVars, bunkr, sanitize_call, api,
                extract_call, collect, legacy, constructed, bunkr_run, cipher, throttle, contain>>

notCollect == <<resolverVars, downloadVars, extractVars, bunkr, sanitize_call, api,
                extract_call, session, legacy, constructed, bunkr_run, cipher, throttle, contain>>

notLegacy == <<resolverVars, downloadVars, extractVars, bunkr, sanitize_call, api,
               extract_call, session, collect, constructed, bunkr_run, cipher, throttle, contain>>

notConstruct == <<resolverVars, downloadVars, extractVars, bunkr, sanitize_call, api,
                  extract_call, session, collect, legacy, bunkr_run, cipher, throttle, contain>>

notBunkrRun == <<resolverVars, downloadVars, extractVars, bunkr, sanitize_call, api,
                 extract_call, session, collect, legacy, constructed, cipher, throttle, contain>>

notCipher == <<resolverVars, downloadVars, extractVars, bunkr, sanitize_call, api,
               extract_call, session, collect, legacy, constructed, bunkr_run, throttle, contain>>

notThrottle == <<resolverVars, downloadVars, extractVars, bunkr, sanitize_call, api,
                 extract_call, session, collect, legacy, constructed, bunkr_run,
                 cipher, contain>>

notContain == <<resolverVars, downloadVars, extractVars, bunkr, sanitize_call, api,
                extract_call, session, collect, legacy, constructed, bunkr_run, cipher,
                throttle>>

vars == <<registry, rq, rs, orchestrator, flat, items, transfer, fs0, fs, idx,
          pc, success_count, failed_count, downloaded, failed, requests,
          result, last, adapter, gen, consumer, page, links, li, seen,
          new_on_page, yielded, reqlog, bunkr, sanitize_call, api, extract_call, session, collect, legacy, constructed, bunkr_run, cipher, throttle, contain>>

(***************************************************************************)
(* String helpers (Python str methods used by the resolver).               *)
(***************************************************************************)
UpperChars == "ABCDEFGHIJKLMNOPQRSTUVWXYZ"
LowerChars == "abcdefghijklmnopqrstuvwxyz"
Whitespace == {" ", "\t", "\n", "\r"}

CharAt(s, i) == SubSeq(s, i, i)

RECURSIVE IndexIn(_, _, _)
\* position of the one-character string c in s at or after i, 0 when absent
IndexIn(c, s, i) ==
    IF i > Len(s) THEN 0
    ELSE IF CharAt(s, i) = c THEN i
    ELSE IndexIn(c, s, i + 1)

lower_char(c) ==
    LET i == IndexIn(c, UpperChars, 1)
    IN  IF i = 0 THEN c ELSE CharAt(LowerChars, i)

upper_char(c) ==
    LET i == IndexIn(c, LowerChars, 1)
    IN  IF i = 0 THEN c ELSE CharAt(UpperChars, i)

RECURSIVE lower(_)
\* str.lower()
lower(s) ==
    IF Len(s) = 0 THEN ""
    ELSE lower_char(CharAt(s, 1)) \o lower(SubSeq(s, 2, Len(s)))

RECURSIVE upper(_)
\* str.upper()
upper(s) ==
    IF Len(s) = 0 THEN ""
    ELSE upper_char(CharAt(s, 1)) \o upper(SubSeq(s, 2, Len(s)))

RECURSIVE lstrip(_)
lstrip(s) ==
    IF Len(s) > 0 /\ CharAt(s, 1) \in Whitespace
    THEN lstrip(SubSeq(s, 2, Len(s)))
    ELSE s

RECURSIVE rstrip(_)
rstrip(s) ==
    IF Len(s) > 0 /\ CharAt(s, Len(s)) \in Whitespace
    THEN rstrip(SubSeq(s, 1, Len(s) - 1))
    ELSE s

\* str.strip()
strip(s) == rstrip(lstrip(s))

\* s.endswith(suffix)
endswith(s, suffix) ==
    /\ Len(suffix) <= Len(s)
    /\ SubSeq(s, Len(s) - Len(suffix) + 1, Len(s)) = suffix

\* s.startswith(prefix)
startswith(s, prefix) ==
    /\ Len(prefix) <= Len(s)
    /\ SubSeq(s, 1, Len(prefix)) = prefix

RECURSIVE find_from(_, _, _)
\* first index >= i at which sub occurs in s, 0 when it does not occur
find_from(sub, s, i) ==
    IF i + Len(sub) - 1 > Len(s) THEN 0
    ELSE IF SubSeq(s, i, i + Len(sub) - 1) = sub THEN i
    ELSE find_from(sub, s, i + 1)

\* Python's  sub in s
contains(sub, s) == find_from(sub, s, 1) # 0

(***************************************************************************)
(* Domain resolver: megaloader.plugins                                     *)
(***************************************************************************)
None == "None"

PLUGIN_REGISTRY ==
    << <<"bunkr.si", "Bunkr">>,
       <<"bunkr.la", "Bunkr">>,
       <<"bunkr.is", "Bunkr">>,
       <<"bunkr.ru", "Bunkr">>,
       <<"bunkr.su", "Bunkr">>,
       <<"cyberdrop.me", "Cyberdrop">>,
       <<"cyberdrop.to", "Cyberdrop">>,
       <<"fanbox.cc", "Fanbox">>,
       <<"fapello.com", "Fapello">>,
       <<"gofile.io", "Gofile">>,
       <<"pixeldrain.com", "PixelDrain">>,
       <<"pixiv.net", "Pixiv">>,
       <<"rule34.xxx", "Rule34">>,
       <<"thothub.ch", "ThothubTO">>,
       <<"thothub.to", "ThothubTO">>,
       <<"thothub.vip", "ThothubVIP">>,
       <<"thotslife.com", "Thotslife">> >>

\* iteration order of the one-element set
SUBDOMAIN_SUPPORTED == << "fanbox.cc" >>

RECURSIVE registry_get(_, _, _)
\* reg[domain] for a dict kept as a sequence of pairs; None when the key is absent
registry_get(reg, domain, i) ==
    IF i > Len(reg) THEN None
    ELSE IF reg[i][1] = domain THEN reg[i][2]
    ELSE registry_get(reg, domain, i + 1)

in_registry(reg, domain) == \E i \in 1..Len(reg) : reg[i][1] = domain

RECURSIVE subdomain_match(_, _, _)
\* the loop over SUBDOMAIN_SUPPORTED: the first base domain that matches
subdomain_match(reg, domain, i) ==
    IF i > Len(SUBDOMAIN_SUPPORTED) THEN None
    ELSE LET base_domain == SUBDOMAIN_SUPPORTED[i]
         IN  IF endswith(domain, "." \o base_domain) /\ in_registry(reg, base_domain)
             THEN registry_get(reg, base_domain, 1)
             ELSE subdomain_match(reg, domain, i + 1)

RECURSIVE partial_match(_, _, _)
\* the loop over PLUGIN_REGISTRY.items(): the first key contained in domain
partial_match(reg, domain, i) ==
    IF i > Len(reg) THEN None
    ELSE IF contains(reg[i][1], domain) THEN reg[i][2]
    ELSE partial_match(reg, domain, i + 1)

get_plugin_class_unnormalized(reg, domain0) ==
    LET domain == strip(domain0)
    IN  IF in_registry(reg, domain) THEN registry_get(reg, domain, 1)
        ELSE IF subdomain_match(reg, domain, 1) # None
             THEN subdomain_match(reg, domain, 1)
        ELSE partial_match(reg, domain, 1)

get_plugin_class_partial_first(reg, domain0) ==
    LET domain == strip(lower(domain0))
    IN  IF in_registry(reg, domain) THEN registry_get(reg, domain, 1)
        ELSE IF partial_match(reg, domain, 1) # None
             THEN partial_match(reg, domain, 1)
        ELSE subdomain_match(reg, domain, 1)

get_plugin_class(reg, domain0) ==
    LET domain == strip(lower(domain0))
    IN  IF in_registry(reg, domain) THEN registry_get(reg, domain, 1)
        ELSE IF subdomain_match(reg, domain, 1) # None
             THEN subdomain_match(reg, domain, 1)
        ELSE partial_match(reg, domain, 1)

(***************************************************************************)
(* urllib.parse.urlparse(url).netloc, for URLs without tab or newline      *)
(* characters: an optional scheme up to the first ':', then '//' and the   *)
(* network location up to the first '/', '?' or '#'.                       *)
(***************************************************************************)
SchemeChars == LowerChars \o UpperChars \o "0123456789+-."

is_scheme(s) ==
    /\ Len(s) > 0
    /\ IndexIn(CharAt(s, 1), LowerChars \o UpperChars, 1) # 0
    /\ \A i \in 1..Len(s) : IndexIn(CharAt(s, i), SchemeChars, 1) # 0

RECURSIVE netloc_end(_, _)
\* _splitnetloc: index of the first delimiter at or after i, Len(s) + 1 when none
netloc_end(s, i) ==
    IF i > Len(s) THEN Len(s) + 1
    ELSE IF CharAt(s, i) \in {"/", "?", "#"} THEN i
    ELSE netloc_end(s, i + 1)

urlparse_netloc_with_path(url) ==
    LET i    == IndexIn(":", url, 1)
        rest == IF i > 1 /\ is_scheme(SubSeq(url, 1, i - 1))
                THEN SubSeq(url, i + 1, Len(url))
                ELSE url
    IN  IF startswith(rest, "//")
        THEN SubSeq(rest, 3, Len(rest))
        ELSE ""

urlparse_netloc(url) ==
    LET i    == IndexIn(":", url, 1)
        rest == IF i > 1 /\ is_scheme(SubSeq(url, 1, i - 1))
                THEN SubSeq(url, i + 1, Len(url))
                ELSE url
    IN  IF startswith(rest, "//")
        THEN SubSeq(rest, 3, netloc_end(rest, 3) - 1)
        ELSE ""

\* the head of megaloader.extract(): validation and plugin lookup; the value is
\* the exception raised or the plugin class that is about to be constructed
extract_plugin_class(reg, url0) ==
    IF strip(url0) = "" THEN "ValueError"
    ELSE LET url    == strip(url0)
             netloc == urlparse_netloc(url)
         IN  IF netloc = "" THEN "ValueError"
             ELSE IF get_plugin_class(reg, netloc) = None
                  THEN "UnsupportedDomainError"
                  ELSE get_plugin_class(reg, netloc)

(***************************************************************************)
(* Resolver inputs                                                         *)
(***************************************************************************)
RegistryKeys == { PLUGIN_REGISTRY[i][1] : i \in 1..Len(PLUGIN_REGISTRY) }

HostPrefixes == {"", "www.", "creator.", "x", "bunkr.si.", " "}
\* api/config.py: the domains the API accepts
ALLOWED_DOMAINS ==
    {"bunkr.si", "bunkr.la", "bunkr.is", "bunkr.ru", "bunkr.su", "pixeldrain.com",
     "cyberdrop.cr", "cyberdrop.me", "cyberdrop.to", "gofile.io"}

HostBases    == RegistryKeys \cup ALLOWED_DOMAINS \cup {"example.com", "fanbox.c", "bunkr"}
HostSuffixes == {"", " ", ":8080", ".evil.org"}

LowerHosts == { p \o b \o s : p \in HostPrefixes, b \in HostBases, s \in HostSuffixes }
Hosts      == LowerHosts \cup { upper(h) : h \in LowerHosts }

Schemes  == {"https", "HTTPS", "ftp"}
UrlTails == {"", "/x", "/a/bunkr.si?q=1", "?tags=fanbox.cc"}

(***************************************************************************)
(* Resolver operations                                                     *)
(***************************************************************************)
Pending == "pending"

\* a caller resolves a bare host
GetPluginClass ==
    /\ rq.op = "get_plugin_class"
    /\ rs = Pending
    /\ rs' = get_plugin_class(registry, rq.arg)
    /\ UNCHANGED <<registry, rq>>
    /\ UNCHANGED notResolver

\* a caller starts iterating extract(url): the URL is validated and resolved
ExtractResolve ==
    /\ rq.op = "extract"
    /\ rs = Pending
    /\ rs' = extract_plugin_class(registry, rq.arg)
    /\ UNCHANGED <<registry, rq>>
    /\ UNCHANGED notResolver

NextResolver == GetPluginClass \/ ExtractResolve

(***************************************************************************)
(* Filesystem names: megaloader_cli.utils.sanitize_for_filesystem          *)
(***************************************************************************)
InvalidChars == {"<", ">", ":", "\"", "/", "\\", "|", "?", "*"}

RECURSIVE replace_invalid(_)
\* re.sub(r'[<>:"/\\|?*]', "_", name)
replace_invalid(s) ==
    IF Len(s) = 0 THEN ""
    ELSE (IF CharAt(s, 1) \in InvalidChars THEN "_" ELSE CharAt(s, 1))
         \o replace_invalid(SubSeq(s, 2, Len(s)))

RECURSIVE collapse_underscores(_)
\* re.sub(r"_+", "_", sanitized)
collapse_underscores(s) ==
    IF Len(s) < 2 THEN s
    ELSE IF CharAt(s, 1) = "_" /\ CharAt(s, 2) = "_"
         THEN collapse_underscores(SubSeq(s, 2, Len(s)))
         ELSE CharAt(s, 1) \o collapse_underscores(SubSeq(s, 2, Len(s)))

RECURSIVE strip_underscores(_)
\* str.strip("_")
strip_underscores(s) ==
    IF Len(s) > 0 /\ CharAt(s, 1) = "_" THEN strip_underscores(SubSeq(s, 2, Len(s)))
    ELSE IF Len(s) > 0 /\ CharAt(s, Len(s)) = "_"
         THEN strip_underscores(SubSeq(s, 1, Len(s) - 1))
    ELSE s

sanitize_without_fallback(name) ==
    strip_underscores(strip(collapse_underscores(replace_invalid(name))))

sanitize_for_filesystem(name) ==
    LET sanitized == strip_underscores(strip(collapse_underscores(replace_invalid(name))))
    IN  IF sanitized # "" THEN sanitized ELSE "unnamed"

(***************************************************************************)
(* Download orchestrators                                                  *)
(*   cli: megaloader_cli.commands._download_with_progress + io.download_file*)
(*   api: api.downloads.download_items + download_file                     *)
(***************************************************************************)
Absent == "absent"
NoException == "none"

\* the size of the largest batch
MaxBatch == 3

\* what happens when a download_url is fetched:
\*   ok            200 and the whole body arrives
\*   request_error the connection fails or the status is not 2xx
\*   bad_length    200 with a Content-Length header that is not a number
\*   stream_error  200, then the connection breaks after part of the body
\*   write_error   200, then writing the file fails after part of the body
Outcomes == {"ok", "request_error", "bad_length", "stream_error", "write_error"}

Urls == {"u1", "u2"}

\* collection_name "" stands for None
Items ==
    { [download_url |-> "u1", filename |-> "a.txt",  collection_name |-> ""],
      [download_url |-> "u2", filename |-> "b?.txt", collection_name |-> ""],
      [download_url |-> "u1", filename |-> "b*.txt", collection_name |-> ""],
      [download_url |-> "u2", filename |-> "a.txt",  collection_name |-> "al:1"] }

Batches == UNION { [1..n -> Items] : n \in 1..MaxBatch }

BaseDir == "out"
TempDir == "tmp"

\* the body served for url
Body(url) == "data:" \o url
Partial == "partial"
OldContent == "old"

\* a destination rule without grouping: every item goes to the root
cli_dest_path_ungrouped(base_dir, isFlat, item) ==
    base_dir \o "/" \o sanitize_for_filesystem(item.filename)

\* commands.py: the destination of an item under base_dir
cli_dest_path(base_dir, isFlat, item) ==
    LET dest_dir == IF isFlat \/ item.collection_name = ""
                    THEN base_dir
                    ELSE base_dir \o "/" \o sanitize_for_filesystem(item.collection_name)
    IN  dest_dir \o "/" \o sanitize_for_filesystem(item.filename)

\* pathlib's directory / name: a name that starts with "/" is absolute and
\* replaces the directory
path_join(directory, name) ==
    IF Len(name) > 0 /\ SubSeq(name, 1, 1) = "/" THEN name
    ELSE directory \o "/" \o name

\* api/downloads.py: output_dir / item.filename
api_output_path(output_dir, item) == path_join(output_dir, item.filename)

dest_of(kind, isFlat, item) ==
    IF kind = "cli" THEN cli_dest_path(BaseDir, isFlat, item)
    ELSE api_output_path(TempDir, item)

Paths == { dest_of(k, f, i) : k \in {"cli", "api"}, f \in BOOLEAN, i \in Items }

remove_everything(files, path) == [p \in DOMAIN files |-> Absent]

\* destination.unlink() when destination.exists()
remove_if_exists(files, path) == [files EXCEPT ![path] = Absent]

\* the body of io.download_file after the existence check: the value is what
\* the call returns or raises, the files it leaves and the requests it made
cli_transfer(files, item, destination, outcome) ==
    CASE outcome = "ok" ->
           [ret |-> TRUE, raised |-> NoException, requests |-> 1,
            files |-> [files EXCEPT ![destination] = Body(item.download_url)]]
      [] outcome = "request_error" ->
           [ret |-> FALSE, raised |-> NoException, requests |-> 1,
            files |-> remove_if_exists(files, destination)]
      [] outcome = "bad_length" ->
           \* int(response.headers.get("content-length", 0)) raises ValueError,
           \* which the except clause does not name
           [ret |-> FALSE, raised |-> "ValueError", requests |-> 1,
            files |-> files]
      [] outcome \in {"stream_error", "write_error"} ->
           [ret |-> FALSE, raised |-> NoException, requests |-> 1,
            files |-> remove_if_exists([files EXCEPT ![destination] = Partial],
                                       destination)]

cli_download_file_no_skip(files, item, destination, outcome) ==
    cli_transfer(files, item, destination, outcome)

\* io.download_file
cli_download_file(files, item, destination, outcome) ==
    IF files[destination] # Absent
    THEN [ret |-> TRUE, raised |-> NoException, requests |-> 0, files |-> files]
    ELSE cli_transfer(files, item, destination, outcome)

\* api.downloads.download_file: no existence check, the Content-Length header is
\* not read, every exception is caught
api_download_file(files, item, output_path, outcome) ==
    CASE outcome \in {"ok", "bad_length"} ->
           [ret |-> TRUE, raised |-> NoException, requests |-> 1,
            files |-> [files EXCEPT ![output_path] = Body(item.download_url)]]
      [] outcome = "request_error" ->
           [ret |-> FALSE, raised |-> NoException, requests |-> 1,
            files |-> remove_if_exists(files, output_path)]
      [] outcome \in {"stream_error", "write_error"} ->
           [ret |-> FALSE, raised |-> NoException, requests |-> 1,
            files |-> remove_if_exists([files EXCEPT ![output_path] = Partial],
                                       output_path)]

NoFilesDownloaded == "RuntimeError: No files downloaded successfully"

download_items_result_any_failure(dl, fl) ==
    IF fl # << >> THEN NoFilesDownloaded ELSE "success"

\* download_items: raise when nothing was downloaded, else return the list
download_items_result(dl, fl) ==
    IF dl = << >> THEN NoFilesDownloaded ELSE "success"

\* _download_with_progress: the summary and the exit status
cli_summary_result(fc) ==
    IF fc = 0 THEN "success" ELSE "SystemExit(1)"

NoCall == [dest |-> "", existed |-> FALSE, before |-> Absent, outcome |-> "ok",
           ret |-> TRUE, raised |-> NoException, requests |-> 0]

\* one iteration of the loop of _download_with_progress
CliDownloadItem ==
    /\ orchestrator = "cli"
    /\ pc = "loop"
    /\ idx < Len(items)
    /\ LET item      == items[idx + 1]
           dest_path == cli_dest_path(BaseDir, flat, item)
           r         == cli_download_file(fs, item, dest_path, transfer[item.download_url])
       IN  /\ fs' = r.files
           /\ requests' = requests + r.requests
           /\ last' = [dest |-> dest_path, existed |-> fs[dest_path] # Absent,
                       before |-> fs[dest_path],
                       outcome |-> transfer[item.download_url],
                       ret |-> r.ret, raised |-> r.raised, requests |-> r.requests]
           /\ IF r.raised # NoException
              THEN \* the exception leaves the loop and the command
                   /\ pc' = "done"
                   /\ result' = r.raised
                   /\ UNCHANGED <<idx, success_count, failed_count, failed>>
              ELSE /\ idx' = idx + 1
                   /\ success_count' = IF r.ret THEN success_count + 1 ELSE success_count
                   /\ failed_count' = IF r.ret THEN failed_count ELSE failed_count + 1
                   /\ failed' = IF r.ret THEN failed ELSE Append(failed, item.filename)
                   /\ UNCHANGED <<pc, result>>
    /\ UNCHANGED <<orchestrator, flat, items, transfer, fs0, downloaded>>
    /\ UNCHANGED notDownload

\* the summary of _download_with_progress
CliSummary ==
    /\ orchestrator = "cli"
    /\ pc = "loop"
    /\ idx = Len(items)
    /\ pc' = "done"
    /\ result' = cli_summary_result(failed_count)
    /\ UNCHANGED <<orchestrator, flat, items, transfer, fs0, fs, idx, success_count,
                   failed_count, downloaded, failed, requests, last>>
    /\ UNCHANGED notDownload

\* one iteration of the loop of download_items
ApiDownloadItem ==
    /\ orchestrator = "api"
    /\ pc = "loop"
    /\ idx < Len(items)
    /\ LET item        == items[idx + 1]
           output_path == api_output_path(TempDir, item)
           r           == api_download_file(fs, item, output_path, transfer[item.download_url])
       IN  /\ fs' = r.files
           /\ requests' = requests + r.requests
           /\ last' = [dest |-> output_path, existed |-> fs[output_path] # Absent,
                       before |-> fs[output_path],
                       outcome |-> transfer[item.download_url],
                       ret |-> r.ret, raised |-> r.raised, requests |-> r.requests]
           /\ idx' = idx + 1
           /\ downloaded' = IF r.ret THEN Append(downloaded, output_path) ELSE downloaded
           /\ failed' = IF r.ret THEN failed ELSE Append(failed, item.filename)
           /\ success_count' = IF r.ret THEN success_count + 1 ELSE success_count
           /\ failed_count' = IF r.ret THEN failed_count ELSE failed_count + 1
    /\ UNCHANGED <<orchestrator, flat, items, transfer, fs0, pc, result>>
    /\ UNCHANGED notDownload

\* the end of download_items
ApiFinish ==
    /\ orchestrator = "api"
    /\ pc = "loop"
    /\ idx = Len(items)
    /\ pc' = "done"
    /\ result' = download_items_result(downloaded, failed)
    /\ UNCHANGED <<orchestrator, flat, items, transfer, fs0, fs, idx, success_count,
                   failed_count, downloaded, failed, requests, last>>
    /\ UNCHANGED notDownload

NextDownload == CliDownloadItem \/ CliSummary \/ ApiDownloadItem \/ ApiFinish

(***************************************************************************)
(* Lazy extraction: megaloader.extract() over                              *)
(*   ThothubTO._extract_model  (paginated, seen set on the video page URL)  *)
(*   Cyberdrop._extract_album  (one listing page)                          *)
(***************************************************************************)
\* bound of the page counter
MaxPages == 3
\* the largest number of links on one listing page
MaxLinks == 2

LinkNames == {"v1", "v2"}

\* the link lists a listing page can hold; << >> is a page without any link
LinkLists == UNION { [1..n -> LinkNames] : n \in 0..MaxLinks }

\* what a listing request can bring: a failed connection, a 404, a blank body,
\* or a page with the links it holds
ListingResponses ==
    { [kind |-> k, links |-> << >>] : k \in {"error", "404", "blank"} }
    \cup { [kind |-> "page", links |-> l] : l \in LinkLists }

\* extract(url) as a plain function would behave: the body starts running at
\* the call
CallExtractEager ==
    /\ gen = "none"
    /\ consumer = "idle"
    /\ gen' = "running"
    /\ UNCHANGED <<adapter, consumer, page, links, li, seen, new_on_page, yielded, reqlog>>
    /\ UNCHANGED notExtract

\* extract(url) is called: a generator function, so only the generator object
\* is made and none of its body runs
CallExtract ==
    /\ gen = "none"
    /\ consumer = "idle"
    /\ gen' = "created"
    /\ UNCHANGED <<adapter, consumer, page, links, li, seen, new_on_page, yielded, reqlog>>
    /\ UNCHANGED notExtract

\* the consumer asks for the next item: the body starts (URL check, plugin
\* lookup and construction, none of which sends a request) or resumes after
\* the yield
Pull ==
    /\ gen \in {"created", "suspended"}
    /\ consumer = "idle"
    /\ gen' = "running"
    /\ consumer' = "pulling"
    /\ UNCHANGED <<adapter, page, links, li, seen, new_on_page, yielded, reqlog>>
    /\ UNCHANGED notExtract

\* the consumer stops iterating and drops the generator
StopPulling ==
    /\ gen \in {"created", "suspended"}
    /\ consumer = "idle"
    /\ gen' = "closed"
    /\ consumer' = "stopped"
    /\ UNCHANGED <<adapter, page, links, li, seen, new_on_page, yielded, reqlog>>
    /\ UNCHANGED notExtract

\* ThothubTO: the deobfuscated video URL of a video page (the rnd parameter
\* makes it particular to the page)
thothub_download_url(link) == "https://thothub.to/get_file/" \o link \o ".mp4?rnd"

\* Cyberdrop: the CDN URL the auth endpoint returns for a file id
cyberdrop_direct_url(file_id) == "https://cdn.cyberdrop.cr/" \o file_id

\* ThothubTO._extract_model, the top of the while loop: page += 1 after a page
\* that was iterated, then the listing request and the three exits
ThothubFetchListing ==
    /\ adapter = "thothub_to"
    /\ gen = "running"
    /\ li = Len(links)
    /\ LET p == IF links = << >> THEN page ELSE page + 1
       IN  /\ p <= MaxPages
           /\ page' = p
           /\ reqlog' = Append(reqlog, <<"list", p>>)
           /\ \E response \in ListingResponses :
                 CASE response.kind = "error" ->
                        \* session.get raises; nothing in the plugin catches it
                        /\ gen' = "failed"
                        /\ consumer' = "done"
                        /\ UNCHANGED <<links, li, new_on_page>>
                   [] response.kind \in {"404", "blank"} \/ response.links = << >> ->
                        /\ gen' = "finished"
                        /\ consumer' = "done"
                        /\ UNCHANGED <<links, li, new_on_page>>
                   [] OTHER ->
                        /\ links' = response.links
                        /\ li' = 0
                        /\ new_on_page' = 0
                        /\ UNCHANGED <<gen, consumer>>
    /\ UNCHANGED <<adapter, seen, yielded>>
    /\ UNCHANGED notExtract

\* ThothubTO._extract_model, one iteration of the for loop over the links
ThothubProcessLink ==
    /\ adapter = "thothub_to"
    /\ gen = "running"
    /\ li < Len(links)
    /\ LET link == links[li + 1]
       IN  /\ li' = li + 1
           /\ IF link \in seen
              THEN UNCHANGED <<gen, consumer, seen, new_on_page, yielded, reqlog>>
              ELSE /\ seen' = seen \cup {link}
                   /\ new_on_page' = new_on_page + 1
                   /\ reqlog' = Append(reqlog, <<"item", link>>)
                   /\ \E resolved \in BOOLEAN :
                         IF resolved
                         THEN /\ yielded' = Append(yielded,
                                     [download_url |-> thothub_download_url(link),
                                      source |-> link])
                              /\ gen' = "suspended"
                              /\ consumer' = "idle"
                         ELSE \* _extract_video returned None
                              UNCHANGED <<gen, consumer, yielded>>
    /\ UNCHANGED <<adapter, page, links>>
    /\ UNCHANGED notExtract

\* Cyberdrop._extract_album up to the for loop: the album request
CyberdropFetchAlbum ==
    /\ adapter = "cyberdrop"
    /\ gen = "running"
    /\ page = 0
    /\ page' = 1
    /\ reqlog' = Append(reqlog, <<"list", 1>>)
    /\ \E response \in { r \in ListingResponses : r.kind \in {"error", "page"} } :
          IF response.kind = "error"
          THEN \* the except clause returns
               /\ gen' = "finished"
               /\ consumer' = "done"
               /\ UNCHANGED <<links, li>>
          ELSE /\ links' = response.links
               /\ li' = 0
               /\ UNCHANGED <<gen, consumer>>
    /\ UNCHANGED <<adapter, seen, new_on_page, yielded>>
    /\ UNCHANGED notExtract

\* Cyberdrop._extract_album, one iteration of the for loop: _process_file
CyberdropProcessFile ==
    /\ adapter = "cyberdrop"
    /\ gen = "running"
    /\ page = 1
    /\ li < Len(links)
    /\ LET file_id == links[li + 1]
       IN  /\ li' = li + 1
           /\ \E answer \in {"no_info", "no_url", "ok"} :
                 CASE answer = "no_info" ->
                        /\ reqlog' = Append(reqlog, <<"info", file_id>>)
                        /\ UNCHANGED <<gen, consumer, yielded>>
                   [] answer = "no_url" ->
                        /\ reqlog' = reqlog \o << <<"info", file_id>>, <<"item", file_id>> >>
                        /\ UNCHANGED <<gen, consumer, yielded>>
                   [] answer = "ok" ->
                        /\ reqlog' = reqlog \o << <<"info", file_id>>, <<"item", file_id>> >>
                        /\ yielded' = Append(yielded,
                               [download_url |-> cyberdrop_direct_url(file_id),
                                source |-> file_id])
                        /\ gen' = "suspended"
                        /\ consumer' = "idle"
    /\ UNCHANGED <<adapter, page, links, seen, new_on_page>>
    /\ UNCHANGED notExtract

\* Cyberdrop._extract_album: the for loop is over and the generator returns
CyberdropReturn ==
    /\ adapter = "cyberdrop"
    /\ gen = "running"
    /\ page = 1
    /\ li = Len(links)
    /\ gen' = "finished"
    /\ consumer' = "done"
    /\ UNCHANGED <<adapter, page, links, li, seen, new_on_page, yielded, reqlog>>
    /\ UNCHANGED notExtract

NextExtract ==
    \/ CallExtract
    \/ Pull
    \/ StopPulling
    \/ ThothubFetchListing
    \/ ThothubProcessLink
    \/ CyberdropFetchAlbum
    \/ CyberdropProcessFile
    \/ CyberdropReturn

(***************************************************************************)
(* Bytes and text.  A bytes object is a sequence of 0..255 and a str a     *)
(* sequence of code points, so that XOR, base64, UTF-8 and percent-encoding *)
(* are computed on the values Python computes them on.                     *)
(***************************************************************************)
\* the printable ASCII characters: code points 32..95 and 97..126, in order
\* (96, the grave accent, cannot be written in a string here and is left out)
AsciiLow == " !\"#$%&'()*+,-./0123456789:;<=>?@ABCDEFGHIJKLMNOPQRSTUVWXYZ[\\]^_"
AsciiHigh == "abcdefghijklmnopqrstuvwxyz{|}~"

\* ord(c) of a printable ASCII character
ord(c) ==
    IF IndexIn(c, AsciiLow, 1) # 0 THEN IndexIn(c, AsciiLow, 1) + 31
    ELSE IndexIn(c, AsciiHigh, 1) + 96

\* the code points of an ASCII literal; also its str.encode("utf-8")
Ord(s) == [i \in 1..Len(s) |-> ord(CharAt(s, i))]

Digits == "0123456789"

RECURSIVE str_nat(_)
str_nat(n) ==
    IF n < 10 THEN CharAt(Digits, n + 1)
    ELSE str_nat(n \div 10) \o CharAt(Digits, (n % 10) + 1)

\* str(n) of an int
str_int(n) == IF n < 0 THEN "-" \o str_nat(0 - n) ELSE str_nat(n)

RECURSIVE xor(_, _)
\* a ^ b on non-negative ints
xor(a, b) ==
    IF a = 0 THEN b
    ELSE IF b = 0 THEN a
    ELSE (((a % 2) + (b % 2)) % 2) + (2 * xor(a \div 2, b \div 2))

B64Alphabet == "ABCDEFGHIJKLMNOPQRSTUVWXYZabcdefghijklmnopqrstuvwxyz0123456789+/"

\* a value that may have failed to be computed: v is meaningful when ok
Ok(v) == [ok |-> TRUE, v |-> v]
Raised == [ok |-> FALSE, v |-> << >>]

RECURSIVE a2b_base64(_, _, _, _, _, _)
\* binascii.a2b_base64 in its default non-strict mode, as base64.b64decode
\* calls it: characters outside the alphabet are skipped, a completed pad
\* sequence ends the parse, an unfinished quad raises binascii.Error
a2b_base64(s, i, quad_pos, leftchar, pads, out) ==
    IF i > Len(s)
    THEN IF quad_pos # 0 THEN Raised ELSE Ok(out)
    ELSE LET c == CharAt(s, i)
             v == IndexIn(c, B64Alphabet, 1) - 1
         IN  IF c = "="
             THEN IF quad_pos >= 2 /\ quad_pos + pads + 1 >= 4
                  THEN Ok(out)
                  ELSE a2b_base64(s, i + 1, quad_pos, leftchar,
                                  IF quad_pos >= 2 THEN pads + 1 ELSE pads, out)
             ELSE IF v < 0
             THEN a2b_base64(s, i + 1, quad_pos, leftchar, pads, out)
             ELSE CASE quad_pos = 0 ->
                         a2b_base64(s, i + 1, 1, v, 0, out)
                    [] quad_pos = 1 ->
                         a2b_base64(s, i + 1, 2, v % 16, 0,
                                    Append(out, (leftchar * 4) + (v \div 16)))
                    [] quad_pos = 2 ->
                         a2b_base64(s, i + 1, 3, v % 4, 0,
                                    Append(out, (leftchar * 16) + (v \div 4)))
                    [] OTHER ->
                         a2b_base64(s, i + 1, 0, 0, 0,
                                    Append(out, (leftchar * 64) + v))

\* base64.b64decode(s) of an ASCII str
b64decode(s) == a2b_base64(s, 1, 0, 0, 0, << >>)

RECURSIVE utf8_decode(_, _, _)
\* bytes.decode("utf-8"), errors="strict": UnicodeDecodeError on an invalid
\* start byte, a missing or invalid continuation byte, an overlong form, a
\* surrogate or a code point above U+10FFFF
utf8_decode(b, i, out) ==
    IF i > Len(b) THEN Ok(out)
    ELSE LET b0 == b[i]
             cont(k) == i + k <= Len(b) /\ b[i + k] \in 128..191
             low(k) == b[i + k] - 128
         IN  IF b0 < 128
             THEN utf8_decode(b, i + 1, Append(out, b0))
             ELSE IF b0 \in 194..223 /\ cont(1)
             THEN utf8_decode(b, i + 2, Append(out, ((b0 - 192) * 64) + low(1)))
             ELSE IF /\ b0 \in 224..239 /\ cont(1) /\ cont(2)
                     /\ (b0 = 224 => b[i + 1] >= 160)
                     /\ (b0 = 237 => b[i + 1] <= 159)
             THEN utf8_decode(b, i + 3,
                              Append(out, ((b0 - 224) * 4096) + (low(1) * 64) + low(2)))
             ELSE IF /\ b0 \in 240..244 /\ cont(1) /\ cont(2) /\ cont(3)
                     /\ (b0 = 240 => b[i + 1] >= 144)
                     /\ (b0 = 244 => b[i + 1] <= 143)
             THEN utf8_decode(b, i + 4,
                              Append(out, ((b0 - 240) * 262144) + (low(1) * 4096)
                                          + (low(2) * 64) + low(3)))
             ELSE Raised

\* str.encode("utf-8") of one code point (surrogates do not occur in the inputs)
utf8_encode_char(cp) ==
    IF cp < 128 THEN <<cp>>
    ELSE IF cp < 2048 THEN <<192 + (cp \div 64), 128 + (cp % 64)>>
    ELSE IF cp < 65536
         THEN <<224 + (cp \div 4096), 128 + ((cp \div 64) % 64), 128 + (cp % 64)>>
    ELSE <<240 + (cp \div 262144), 128 + ((cp \div 4096) % 64),
           128 + ((cp \div 64) % 64), 128 + (cp % 64)>>

HexDigits == "0123456789ABCDEF"

\* the characters urllib.parse.quote never escapes, with its default safe="/"
QuoteSafe ==
    { ord(CharAt(UpperChars, i)) : i \in 1..26 }
    \cup { ord(CharAt(LowerChars, i)) : i \in 1..26 }
    \cup { ord(CharAt(Digits, i)) : i \in 1..10 }
    \cup { ord("_"), ord("."), ord("-"), ord("~"), ord("/") }

\* how quote writes one byte
quote_byte(b) ==
    IF b \in QuoteSafe THEN <<b>>
    ELSE Ord("%" \o CharAt(HexDigits, (b \div 16) + 1) \o CharAt(HexDigits, (b % 16) + 1))

RECURSIVE quote_bytes(_)
quote_bytes(bs) ==
    IF bs = << >> THEN << >>
    ELSE quote_byte(Head(bs)) \o quote_bytes(Tail(bs))

RECURSIVE quote(_)
\* urllib.parse.quote(s): UTF-8 encode, then escape every byte that is not safe
quote(s) ==
    IF s = << >> THEN << >>
    ELSE quote_bytes(utf8_encode_char(Head(s))) \o quote(Tail(s))

(***************************************************************************)
(* Bunkr: the direct URL of a file                                         *)
(***************************************************************************)
\* a field of the JSON object the API answers with
JMissing == [kind |-> "missing", n |-> 0, s |-> ""]
JNull == [kind |-> "null", n |-> 0, s |-> ""]
JInt(n) == [kind |-> "int", n |-> n, s |-> ""]
JStr(s) == [kind |-> "str", n |-> 0, s |-> s]

\* what _fetch_direct_url returns: None or a str
NoUrl == [kind |-> "None", v |-> << >>]
Url(v) == [kind |-> "str", v |-> v]
NotCalled == [kind |-> "pending", v |-> << >>]

bunkr_key_bytes_unbucketed(timestamp) == Ord("SECRET_KEY_" \o str_int(timestamp))

\* f"SECRET_KEY_{math.floor(timestamp / 3600)}".encode("utf-8")
bunkr_key_bytes(timestamp) == Ord("SECRET_KEY_" \o str_int(timestamp \div 3600))

\* bytearray(encrypted_bytes[i] ^ key_bytes[i % len(key_bytes)] for i in range(...))
xor_decrypt(encrypted_bytes, key_bytes) ==
    [i \in 1..Len(encrypted_bytes) |->
        xor(encrypted_bytes[i], key_bytes[((i - 1) % Len(key_bytes)) + 1])]

\* Bunkr._fetch_direct_url after the POST: every exception of the try block
\* ends in "return None"
fetch_direct_url(response, filename) ==
    IF response.status # "ok"
    THEN NoUrl     \* raise_for_status() or response.json() raised
    ELSE IF response.timestamp.kind = "missing" \/ response.url.kind = "missing"
    THEN NoUrl     \* KeyError
    ELSE IF response.timestamp.kind # "int"
    THEN NoUrl     \* TypeError: timestamp / 3600 on a str or on None
    ELSE IF response.url.kind # "str"
    THEN NoUrl     \* TypeError in b64decode
    ELSE LET encrypted_bytes == b64decode(response.url.s)
         IN  IF ~encrypted_bytes.ok
             THEN NoUrl     \* binascii.Error
             ELSE LET decrypted == xor_decrypt(encrypted_bytes.v,
                                               bunkr_key_bytes(response.timestamp.n))
                      base_url == utf8_decode(decrypted, 1, << >>)
                  IN  IF ~base_url.ok
                      THEN NoUrl     \* UnicodeDecodeError
                      ELSE Url(base_url.v \o Ord("?n=") \o quote(filename))

\* timestamps in five hour buckets, two of them with several members
Timestamps == {0, 3599, 3600, 35999, 36000, 1762300800, 1762304399, 1762304400}

\* "https://c.d/" encrypted for 1762300800 and encoded: twelve bytes, so that
\* what follows meets the part of the key that holds the hour bucket
CipherHead == "OzE3IjZucGQmdzsb"

\* what follows the head: nothing, encrypted text ("a.b", "v1", "x", U+00E9,
\* U+20AC), bytes that are no UTF-8 under the key, unfinished quads, broken
\* padding, characters outside the alphabet
CipherTails == {"", "WRdX", "Tgg=", "QA==", "+5A=", "2ruZ", "xw==", "+w==",
                "A", "AA", "AAA", "AA=A", "=", "!", "!!!!", "WR!dX", "QA==AAAA"}

EncryptedUrls == { CipherHead \o t : t \in CipherTails } \cup {"", "!!!!", "WRdX"}

ApiResponses ==
    { [status |-> "ok", timestamp |-> t, url |-> u] :
        t \in { JInt(n) : n \in Timestamps } \cup {JMissing, JNull, JStr("1762300800")},
        u \in { JStr(s) : s \in EncryptedUrls } \cup {JMissing, JNull, JInt(5)} }
    \cup { [status |-> st, timestamp |-> JMissing, url |-> JMissing] :
             st \in {"http_error", "connection_error", "not_json"} }

\* filenames: plain, with characters quote escapes, with "/" and non-ASCII
Filenames == { Ord("a.jpg"), Ord("my file?.mp4"), Ord("x/y") \o <<233>> }

BunkrIdle == [response |-> [status |-> "none", timestamp |-> JMissing, url |-> JMissing],
              filename |-> << >>, direct_url |-> NoUrl]

\* Bunkr._fetch_direct_url(file_id, filename)
FetchDirectUrl ==
    /\ bunkr.direct_url = NotCalled
    /\ bunkr' = [bunkr EXCEPT !.direct_url = fetch_direct_url(bunkr.response, bunkr.filename)]
    /\ UNCHANGED notBunkr

NextBunkr == FetchDirectUrl

(***************************************************************************)
(* sanitize_for_filesystem applied to a name                               *)
(***************************************************************************)
MaxNameLen == 3

\* the characters names are made of: a letter, a dot, the underscore the
\* sanitizer writes, a blank, and invalid characters
NameChars == {"a", ".", "_", " ", "/", "\\", "?", ":"}

RECURSIVE NamesUpTo(_)
\* every name of at most n characters
NamesUpTo(n) ==
    IF n = 0 THEN {""}
    ELSE LET shorter == NamesUpTo(n - 1)
         IN  shorter \cup { s \o c : s \in shorter, c \in NameChars }

SanitizeIdle == [name |-> "", done |-> TRUE, out |-> "unnamed"]

\* one call sanitize_for_filesystem(name)
Sanitize ==
    /\ ~sanitize_call.done
    /\ sanitize_call' = [sanitize_call EXCEPT
                            !.done = TRUE,
                            !.out = sanitize_for_filesystem(sanitize_call.name)]
    /\ UNCHANGED notSanitize

NextSanitize == Sanitize

(***************************************************************************)
(* The API's /download endpoint after extraction: the size probe, the      *)
(* preview gate and the transfer                                           *)
(***************************************************************************)
MaxApiItems == 3

\* config.py: MAX_SIZE_BYTES = int(MAX_SIZE_MB * 1024 * 1024) with the default
\* MAX_SIZE_MB = 4.0
MAX_SIZE_BYTES == 4 * 1024 * 1024

IntOk(n) == [ok |-> TRUE, n |-> n]
ValueError == [ok |-> FALSE, n |-> 0]

RECURSIVE digits_value(_, _)
\* the value of a string of decimal digits, or ValueError
digits_value(s, acc) ==
    IF s = "" THEN IntOk(acc)
    ELSE LET d == IndexIn(CharAt(s, 1), Digits, 1)
         IN  IF d = 0 THEN ValueError
             ELSE digits_value(SubSeq(s, 2, Len(s)), (acc * 10) + (d - 1))

\* int(s) of a str: surrounding whitespace and one sign are accepted
int_of_str(s) ==
    LET t == strip(s)
        signed == Len(t) > 0 /\ CharAt(t, 1) \in {"-", "+"}
        body == IF signed THEN SubSeq(t, 2, Len(t)) ELSE t
        v == digits_value(body, 0)
    IN  IF body = "" \/ ~v.ok THEN ValueError
        ELSE IF signed /\ CharAt(t, 1) = "-" THEN IntOk(0 - v.n)
        ELSE v

NoHeader == [present |-> FALSE, value |-> ""]
Header(v) == [present |-> TRUE, value |-> v]

\* what requests.head(...) does for one item: it raises, or it returns the
\* final response with its status and its content-length header
HeadOutcomes ==
    { [kind |-> k, status |-> 0, content_length |-> NoHeader] :
        k \in {"timeout", "connection_error"} }
    \cup { [kind |-> "response", status |-> st, content_length |-> h] :
             st \in {200, 304, 404, 503},
             h \in {NoHeader} \cup
                   { Header(v) : v \in {"", "abc", "12.5", " 1 ", "4194303",
                                        "4194304", "4194305", "-5"} } }

\* utils.get_file_size
get_file_size(head) ==
    IF head.kind = "timeout" THEN 0                 \* except Timeout
    ELSE IF head.kind = "connection_error" THEN 0   \* except (ValueError, Exception)
    ELSE IF head.status \in 400..599 THEN 0         \* raise_for_status: HTTPError
    ELSE IF ~head.content_length.present \/ head.content_length.value = ""
    THEN 0                                          \* if not content_length
    ELSE LET size_bytes == int_of_str(head.content_length.value)
         IN  IF size_bytes.ok THEN size_bytes.n ELSE 0

\* the comparison of download_endpoint turned into >=
exceeds_limit_inclusive(total_size) == total_size >= MAX_SIZE_BYTES

\* index.py: if total_size > MAX_SIZE_BYTES
exceeds_limit(total_size) == total_size > MAX_SIZE_BYTES

NoHead == [kind |-> "none", status |-> 0, content_length |-> NoHeader]

ApiIdle == [pc |-> "done", n |-> 0, i |-> 0, sizes |-> << >>, total_size |-> 0,
            head |-> NoHead, temp_dir |-> "none", handed |-> 0,
            download_calls |-> 0, response |-> "none"]

\* get_items_with_sizes, one iteration of its loop: the HEAD request of the
\* item, the sum, and the FileInfo, whose fields are validated (ge=0)
ApiProbeItem ==
    /\ api.pc = "probe"
    /\ \E head \in HeadOutcomes :
          LET size == get_file_size(head)
          IN  IF size < 0
              THEN \* FileInfo(size_bytes=size) raises ValidationError; the
                   \* endpoint answers 500 "Unable to verify file sizes"
                   api' = [api EXCEPT !.head = head, !.pc = "done",
                                      !.total_size = api.total_size + size,
                                      !.response = "500 Unable to verify file sizes"]
              ELSE api' = [api EXCEPT !.head = head,
                                      !.i = api.i + 1,
                                      !.sizes = Append(api.sizes, size),
                                      !.total_size = api.total_size + size,
                                      !.pc = IF api.i + 1 = api.n THEN "gate" ELSE "probe"]
    /\ UNCHANGED notApi

\* a gate that prepares the transfer before it looks at the total
ApiGateEager ==
    /\ api.pc = "gate"
    /\ IF exceeds_limit(api.total_size)
       THEN api' = [api EXCEPT !.pc = "done", !.temp_dir = "created",
                               !.response = "preview"]
       ELSE api' = [api EXCEPT !.pc = "download", !.temp_dir = "created"]
    /\ UNCHANGED notApi

\* download_endpoint, the preview gate: the preview is returned, or the temp
\* directory is created
ApiGate ==
    /\ api.pc = "gate"
    /\ IF exceeds_limit(api.total_size)
       THEN api' = [api EXCEPT !.pc = "done", !.response = "preview"]
       ELSE api' = [api EXCEPT !.pc = "download", !.temp_dir = "created"]
    /\ UNCHANGED notApi

\* download_endpoint, the transfer: download_items(items, temp_dir) returns the
\* paths of the items that succeeded or raises when there is none; the temp
\* directory is removed in the finally clause
ApiDownload ==
    /\ api.pc = "download"
    /\ \E count \in 0..api.n :
          api' = [api EXCEPT !.pc = "done",
                             !.handed = api.n,
                             !.download_calls = api.download_calls + 1,
                             !.temp_dir = "removed",
                             !.response = IF count = 0 THEN "500 Download failed"
                                          ELSE IF count = 1 THEN "file"
                                          ELSE "zip"]
    /\ UNCHANGED notApi

NextApi ==
    \/ ApiProbeItem
    \/ ApiGate
    \/ ApiDownload

(***************************************************************************)
(* megaloader.extract(url) iterated: validation, plugin lookup, plugin     *)
(* construction, and the errors of the plugin's own generator              *)
(***************************************************************************)
MaxYield == 2

\* the URLs extract() is called with: empty, blank, without a scheme, of an
\* unknown host, and of registered hosts
ExtractUrls ==
    {"", "  ", "gofile.io/d/abc", "https://", "https://example.com/a",
     "https://gofile.io/d/abc", "  https://gofile.io/d/abc ", "https://gofile.io/",
     "HTTPS://GOFILE.IO/d/a-b", "https://pixeldrain.com/l/x", "https://bunkr.si/a/x",
     "https://cyberdrop.me/a/x"}

\* what a plugin can raise while it is constructed or iterated: requests'
\* network errors, errors of the plugin's own checks, and parse errors
PluginErrors ==
    {"ConnectionError", "Timeout", "HTTPError", "RuntimeError", "KeyError",
     "JSONDecodeError", "ValueError"}

\* isinstance(e, ValueError): response.json() raises requests' JSONDecodeError,
\* a subclass of json.JSONDecodeError and so of ValueError
IsValueError(e) == e \in {"ValueError", "JSONDecodeError"}

WordChars == LowerChars \o UpperChars \o Digits \o "_"

RECURSIVE gofile_content_id_from(_, _)
\* re.search(r"gofile\.io/(?:d|f)/([\w-]+)", url), searched from index i: is
\* there a match
gofile_content_id_from(url, i) ==
    IF i + 12 > Len(url) THEN FALSE
    ELSE IF /\ SubSeq(url, i, i + 11) \in {"gofile.io/d/", "gofile.io/f/"}
            /\ IndexIn(CharAt(url, i + 12), WordChars \o "-", 1) # 0
         THEN TRUE
    ELSE gofile_content_id_from(url, i + 1)

\* plugin_class(url, **options): the exception of the constructor, None when
\* it returns.  Gofile._parse_content_id raises ValueError
construct_plugin(plugin_class, url) ==
    IF plugin_class = "Gofile" /\ ~gofile_content_id_from(url, 1)
    THEN "ValueError"
    ELSE None

NoError == [type |-> "none", cause |-> "none"]

\* the except clauses of extract(): UnsupportedDomainError and ValueError are
\* re-raised as they are, every other Exception is wrapped
surface(e) ==
    IF e = "UnsupportedDomainError" \/ IsValueError(e)
    THEN [type |-> e, cause |-> "none"]
    ELSE [type |-> "ExtractionError", cause |-> e]

ExtractCallIdle == [url |-> "", pc |-> "none", plugin |-> None, phase |-> "none",
                    original |-> "none", raised |-> NoError, yielded |-> 0]

\* what one resumption of plugin.extract() does: it yields an item, returns,
\* or raises
PluginSteps == {"yield", "return"} \cup PluginErrors

\* the first next() on the generator extract(url) returned: the body runs from
\* its top to the first yield of the plugin, or to a raise or the return
ExtractFirstNext ==
    /\ extract_call.pc = "created"
    /\ LET head == extract_plugin_class(registry, extract_call.url)
           url == strip(extract_call.url)
       IN  IF head \in {"ValueError", "UnsupportedDomainError"}
           THEN extract_call' = [extract_call EXCEPT
                                   !.pc = "raised", !.phase = "validate",
                                   !.original = head,
                                   !.raised = [type |-> head, cause |-> "none"]]
           ELSE IF construct_plugin(head, url) # None
           THEN extract_call' = [extract_call EXCEPT
                                   !.pc = "raised", !.phase = "construct",
                                   !.original = construct_plugin(head, url),
                                   !.raised = surface(construct_plugin(head, url))]
           ELSE \E step \in PluginSteps :
                   extract_call' =
                       IF step = "yield"
                       THEN [extract_call EXCEPT !.pc = "suspended", !.plugin = head,
                                                 !.phase = "iterate", !.yielded = 1]
                       ELSE IF step = "return"
                       THEN [extract_call EXCEPT !.pc = "finished", !.plugin = head,
                                                 !.phase = "iterate"]
                       ELSE [extract_call EXCEPT !.pc = "raised", !.plugin = head,
                                                 !.phase = "iterate",
                                                 !.original = step,
                                                 !.raised = surface(step)]
    /\ UNCHANGED notExtractCall

\* a later next(): the plugin's generator is resumed after its yield
ExtractLaterNext ==
    /\ extract_call.pc = "suspended"
    /\ \E step \in PluginSteps :
          /\ step = "yield" => extract_call.yielded < MaxYield
          /\ extract_call' =
                IF step = "yield"
                THEN [extract_call EXCEPT !.yielded = extract_call.yielded + 1]
                ELSE IF step = "return"
                THEN [extract_call EXCEPT !.pc = "finished"]
                ELSE [extract_call EXCEPT !.pc = "raised", !.original = step,
                                          !.raised = surface(step)]
    /\ UNCHANGED notExtractCall

NextExtractCall ==
    \/ ExtractFirstNext
    \/ ExtractLaterNext

(***************************************************************************)
(* The managed HTTP session: one request through the adapter mounted by    *)
(* BasePlugin._create_session, with urllib3's Retry as configured there    *)
(***************************************************************************)
\* Retry(total=3, backoff_factor=1, status_forcelist=[429, 500, 502, 503, 504],
\*       allowed_methods=["GET", "POST"])
RETRY_TOTAL == 3
STATUS_FORCELIST == {429, 500, 502, 503, 504}
ALLOWED_METHODS == {"GET", "POST"}

\* urllib3's Retry.RETRY_AFTER_STATUS_CODES, honoured because
\* respect_retry_after_header keeps its default
RETRY_AFTER_STATUS_CODES == {413, 429, 503}

Methods == {"GET", "HEAD", "POST", "PUT", "DELETE"}

\* what one attempt ends in: the connection cannot be made, it breaks while
\* the response is read, or a response arrives, with or without Retry-After
AttemptOutcomes ==
    { [kind |-> k, status |-> 0, retry_after |-> FALSE] :
        k \in {"connect_error", "read_error"} }
    \cup { [kind |-> "response", status |-> st, retry_after |-> ra] :
             st \in {200, 404, 413, 429, 500, 502, 503, 504}, ra \in BOOLEAN }

\* Retry.is_retry(method, status_code, has_retry_after)
is_retry(method, total, outcome) ==
    /\ method \in ALLOWED_METHODS
    /\ \/ outcome.status \in STATUS_FORCELIST
       \/ /\ total # 0
          /\ outcome.retry_after
          /\ outcome.status \in RETRY_AFTER_STATUS_CODES

\* does Retry.increment accept the failure of an attempt: a connection error
\* for every method, a read error for the allowed methods, a response when
\* is_retry says so
is_retriable(method, total, outcome) ==
    CASE outcome.kind = "connect_error" -> TRUE
      [] outcome.kind = "read_error" -> method \in ALLOWED_METHODS
      [] OTHER -> is_retry(method, total, outcome)

SessionIdle == [method |-> "GET", total |-> RETRY_TOTAL, attempts |-> 0,
                retried_after |-> {}, result |-> "none"]

\* one attempt of session.request(method, url): HTTPAdapter.send hands the
\* request to urlopen, which sends it and either returns the response, raises,
\* or increments the Retry object and sends again after the backoff
SessionAttempt ==
    /\ session.result = "pending"
    /\ \E outcome \in AttemptOutcomes :
          IF ~is_retriable(session.method, session.total, outcome)
          THEN session' = [session EXCEPT
                             !.attempts = session.attempts + 1,
                             !.result = IF outcome.kind = "response"
                                        THEN "response" ELSE "ConnectionError"]
          ELSE IF session.total - 1 < 0
          THEN \* Retry.increment: is_exhausted(), MaxRetryError; requests raises
               \* RetryError for a status and ConnectionError otherwise
               session' = [session EXCEPT
                             !.attempts = session.attempts + 1,
                             !.total = session.total - 1,
                             !.result = IF outcome.kind = "response"
                                        THEN "RetryError" ELSE "ConnectionError"]
          ELSE session' = [session EXCEPT
                             !.attempts = session.attempts + 1,
                             !.total = session.total - 1,
                             !.retried_after = session.retried_after \cup {outcome}]
    /\ UNCHANGED notSession

NextSession == SessionAttempt

(***************************************************************************)
(* The API's extract_items: collecting from the generator under the count  *)
(* limit                                                                   *)
(***************************************************************************)
\* config.py: MAX_FILE_COUNT = int(os.getenv("API_MAX_FILES", "50"))
MAX_FILE_COUNT == 50

\* how many items beyond the limit a source may hold
MaxExcess == 3

\* what megaloader.extract(url) would do if it were iterated to its end: yield
\* so many items, then return or raise
Sources ==
    [count : 0..(MAX_FILE_COUNT + MaxExcess), ends : {"return", "ExtractionError"}]

CollectIdle == [source |-> [count |-> 0, ends |-> "return"], pulled |-> 0,
                items |-> 0, result |-> "none", returned |-> 0]

\* a collector that takes the whole generator first and counts afterwards
ExtractItemsNextUnchecked ==
    /\ collect.result = "pending"
    /\ IF collect.pulled < collect.source.count
       THEN collect' = [collect EXCEPT !.pulled = collect.pulled + 1,
                                       !.items = collect.items + 1]
       ELSE IF collect.source.ends # "return"
       THEN collect' = [collect EXCEPT !.result = collect.source.ends]
       ELSE IF collect.items = 0
       THEN collect' = [collect EXCEPT !.result = "ValueError: No downloadable items found"]
       ELSE IF collect.items > MAX_FILE_COUNT
       THEN collect' = [collect EXCEPT !.result = "ValueError: Too many files"]
       ELSE collect' = [collect EXCEPT !.result = "list", !.returned = collect.items]
    /\ UNCHANGED notCollect

\* extract_items, one turn of "for item in megaloader.extract(url)": the
\* generator yields and the body runs, or it raises, or it is exhausted and
\* the code after the loop runs
ExtractItemsNext ==
    /\ collect.result = "pending"
    /\ IF collect.pulled < collect.source.count
       THEN \* items.append(item); if len(items) > MAX_FILE_COUNT: raise
            collect' = [collect EXCEPT
                          !.pulled = collect.pulled + 1,
                          !.items = collect.items + 1,
                          !.result = IF collect.items + 1 > MAX_FILE_COUNT
                                     THEN "ValueError: Too many files"
                                     ELSE "pending"]
       ELSE IF collect.source.ends # "return"
       THEN collect' = [collect EXCEPT !.result = collect.source.ends]
       ELSE IF collect.items = 0
       THEN collect' = [collect EXCEPT !.result = "ValueError: No downloadable items found"]
       ELSE collect' = [collect EXCEPT !.result = "list", !.returned = collect.items]
    /\ UNCHANGED notCollect

NextCollect == ExtractItemsNext

(***************************************************************************)
(* The legacy package's download(url, output_dir) and _process_items       *)
(***************************************************************************)
\* the longest list plugin.export() returns
MaxExport == 3

\* how the part of download() before list(plugin.export()) completes goes: the
\* plugin is built and export() runs to its end, or _validate_url raises
\* ValueError, _validate_plugin_class raises TypeError, the constructor or
\* export() raises
PrepareOutcomes == {"ok", "ValueError", "TypeError", "export raised"}

\* what plugin.download_file(item, item_output_dir) does for one item: returns
\* a true value, returns a false value (False, None), or raises
DownloadFileOutcomes == {"true", "false", "raise"}

ExportsUpTo(n) == UNION {[1..k -> DownloadFileOutcomes] : k \in 0..n}

LegacyIdle == [prepare |-> "ok", files |-> <<>>, pc |-> "done", i |-> 0,
               success_count |-> 0, returned |-> "none"]

\* download(), from its entry to the call of _process_items
DownloadPrepare ==
    /\ legacy.pc = "start"
    /\ IF legacy.prepare # "ok"
       THEN \* except Exception: logger.exception(...); return False
            legacy' = [legacy EXCEPT !.pc = "done", !.returned = "False"]
       ELSE IF legacy.files = <<>>
       THEN \* if not items: logger.info("No items found to download"); return True
            legacy' = [legacy EXCEPT !.pc = "done", !.returned = "True"]
       ELSE legacy' = [legacy EXCEPT !.pc = "items"]
    /\ UNCHANGED notLegacy

\* _process_items, one turn of its for loop
ProcessItem ==
    /\ legacy.pc = "items"
    /\ legacy.i < Len(legacy.files)
    /\ LET outcome == legacy.files[legacy.i + 1]
       IN  legacy' = [legacy EXCEPT
                        !.i = legacy.i + 1,
                        !.success_count = IF outcome = "true"
                                          THEN legacy.success_count + 1
                                          ELSE legacy.success_count]
    /\ UNCHANGED notLegacy

\* _process_items returns success_count; download() returns success_count > 0
DownloadReturn ==
    /\ legacy.pc = "items"
    /\ legacy.i = Len(legacy.files)
    /\ legacy' = [legacy EXCEPT
                    !.pc = "done",
                    !.returned = IF legacy.success_count > 0 THEN "True" ELSE "False"]
    /\ UNCHANGED notLegacy

NextLegacy == DownloadPrepare \/ ProcessItem \/ DownloadReturn

(***************************************************************************)
(* DownloadItem: construction                                              *)
(***************************************************************************)
\* how many DownloadItems are constructed
MaxConstructed == 3

\* the values handed to the constructor: a str or None
PyNone == [type |-> "NoneType", s |-> ""]
PyStr(s) == [type |-> "str", s |-> s]

\* Python's "not value" for a str or None
is_falsy(value) == value.type = "NoneType" \/ value.s = ""

FieldValues == {PyNone, PyStr(""), PyStr(" "), PyStr("a"), PyStr("..")}

\* a __post_init__ that validates the URL only
post_init_url_only(download_url, filename) ==
    IF is_falsy(download_url) THEN "ValueError: download_url cannot be empty"
    ELSE "ok"

\* DownloadItem.__post_init__: "ok" or the error it raises
post_init(download_url, filename) ==
    IF is_falsy(download_url) THEN "ValueError: download_url cannot be empty"
    ELSE IF is_falsy(filename) THEN "ValueError: filename cannot be empty"
    ELSE "ok"

ConstructIdle == [objects |-> {}, calls |-> 0,
                  args |-> [download_url |-> PyNone, filename |-> PyNone],
                  outcome |-> "idle"]

\* DownloadItem(download_url, filename): the generated __init__ assigns the
\* fields, then runs __post_init__; the object exists only if that returns
NewDownloadItem ==
    /\ constructed.outcome # "idle"
    /\ constructed.calls < MaxConstructed
    /\ \E download_url \in FieldValues, filename \in FieldValues :
          LET outcome == post_init(download_url, filename)
              object == [download_url |-> download_url, filename |-> filename]
          IN  constructed' =
                 [objects |-> IF outcome = "ok"
                              THEN constructed.objects \cup {object}
                              ELSE constructed.objects,
                  calls |-> constructed.calls + 1,
                  args |-> object,
                  outcome |-> outcome]
    /\ UNCHANGED notConstruct

NextConstruct == NewDownloadItem

(***************************************************************************)
(* Bunkr: the page fetches of extract() and of the legacy export()         *)
(***************************************************************************)
\* the most file links an album page holds
MaxFileLinks == 2

\* what session.get(...) does: it raises, or gives a response with a status
FetchOutcomes == {"ConnectionError", "Timeout", "200", "404", "500", "503"}

\* session.get(...) followed by response.raise_for_status(): the exception that
\* comes out, or NoException; HTTPError is raised for the statuses 400..599
get_and_raise_for_status(outcome) ==
    IF outcome \in {"ConnectionError", "Timeout"} THEN outcome
    ELSE IF outcome \in {"404", "500", "503"} THEN "HTTPError"
    ELSE NoException

\* ConnectionError, Timeout and HTTPError all derive from RequestException
IsRequestException(e) == e \in {"ConnectionError", "Timeout", "HTTPError"}

\* the path of the URL the plugin was built with
BunkrPaths == {"/a/x", "/f/x", "/v/x"}

\* a file page: fetched with some outcome, and with or without a download
\* button that leads to an item
FilePages == [fetch : FetchOutcomes \ {"Timeout", "500"}, button : BOOLEAN]

FilePageLists == UNION {[1..k -> FilePages] : k \in 0..MaxFileLinks}

BunkrRunIdle == [impl |-> "core", path |-> "/v/x", first |-> "200", pages |-> <<>>,
                 pc |-> "done", k |-> 0, yielded |-> 0, raised |-> NoException]

\* the file page of the call's own URL when it is a /f/ URL
OwnPage(run) == [fetch |-> run.first, button |-> TRUE]

\* Bunkr.extract() of the core package up to the end of its first fetch:
\* _extract_album's get for an /a/ path, _extract_file(self.url) for an /f/ path
BunkrExtract ==
    /\ bunkr_run.impl = "core"
    /\ bunkr_run.pc = "start"
    /\ LET e == get_and_raise_for_status(bunkr_run.first)
       IN  IF startswith(bunkr_run.path, "/a/")
           THEN IF e # NoException
                THEN \* except Exception: logger.exception(...); return
                     bunkr_run' = [bunkr_run EXCEPT !.pc = "done"]
                ELSE IF bunkr_run.pages = <<>>
                THEN \* if not file_links: return
                     bunkr_run' = [bunkr_run EXCEPT !.pc = "done"]
                ELSE bunkr_run' = [bunkr_run EXCEPT !.pc = "files"]
           ELSE IF startswith(bunkr_run.path, "/f/")
           THEN IF IsRequestException(e)
                THEN \* except requests.RequestException: return
                     bunkr_run' = [bunkr_run EXCEPT !.pc = "done"]
                ELSE bunkr_run' = [bunkr_run EXCEPT !.pc = "done", !.yielded = 1]
           ELSE \* logger.warning("Unrecognized Bunkr URL format")
                bunkr_run' = [bunkr_run EXCEPT !.pc = "done"]
    /\ UNCHANGED notBunkrRun

\* Bunkr._extract_file of the core package for the next link of the album
BunkrExtractFile ==
    /\ bunkr_run.impl = "core"
    /\ bunkr_run.pc = "files"
    /\ LET n == bunkr_run.k + 1
           file_page == bunkr_run.pages[n]
           e == get_and_raise_for_status(file_page.fetch)
           got == ~IsRequestException(e) /\ file_page.button
       IN  bunkr_run' = [bunkr_run EXCEPT
                           !.k = n,
                           !.yielded = IF got THEN bunkr_run.yielded + 1
                                       ELSE bunkr_run.yielded,
                           !.pc = IF n = Len(bunkr_run.pages) THEN "done" ELSE "files"]
    /\ UNCHANGED notBunkrRun

\* Bunkr.export() of the legacy package up to the end of its first fetch; the
\* resolved URL is the one requested
BunkrExport ==
    /\ bunkr_run.impl = "legacy"
    /\ bunkr_run.pc = "start"
    /\ LET e == get_and_raise_for_status(bunkr_run.first)
       IN  IF e # NoException
           THEN bunkr_run' = [bunkr_run EXCEPT !.pc = "done", !.raised = e]
           ELSE IF contains("/a/", bunkr_run.path)
           THEN IF bunkr_run.pages = <<>>
                THEN bunkr_run' = [bunkr_run EXCEPT !.pc = "done"]
                ELSE bunkr_run' = [bunkr_run EXCEPT !.pc = "files"]
           ELSE IF contains("/f/", bunkr_run.path)
           THEN bunkr_run' = [bunkr_run EXCEPT !.pc = "files",
                                               !.pages = <<OwnPage(bunkr_run)>>]
           ELSE bunkr_run' = [bunkr_run EXCEPT !.pc = "done"]
    /\ UNCHANGED notBunkrRun

\* Bunkr._resolve_viewer_page of the legacy package for the next viewer page
BunkrResolveViewerPage ==
    /\ bunkr_run.impl = "legacy"
    /\ bunkr_run.pc = "files"
    /\ LET n == bunkr_run.k + 1
           file_page == bunkr_run.pages[n]
           e == get_and_raise_for_status(file_page.fetch)
       IN  IF e # NoException
           THEN bunkr_run' = [bunkr_run EXCEPT !.k = n, !.pc = "done", !.raised = e]
           ELSE bunkr_run' = [bunkr_run EXCEPT
                                !.k = n,
                                !.yielded = IF file_page.button
                                            THEN bunkr_run.yielded + 1
                                            ELSE bunkr_run.yielded,
                                !.pc = IF n = Len(bunkr_run.pages) THEN "done"
                                       ELSE "files"]
    /\ UNCHANGED notBunkrRun

NextBunkrRun ==
    BunkrExtract \/ BunkrExtractFile \/ BunkrExport \/ BunkrResolveViewerPage

(***************************************************************************)
(* ThothubTO: the key of the permutation cipher and the hash permutation   *)
(***************************************************************************)
\* the longest license code drawn character by character, the sigil not counted
MaxCodeLen == 3

\* characters for which str.isdigit() is true although int() rejects them
\* (superscript two stands for the digit characters that are not decimal)
NonDecimalDigits == {"²"}

\* c.isdigit() of a one-character str
isdigit(c) == IndexIn(c, Digits, 1) # 0 \/ c \in NonDecimalDigits

abs(n) == IF n < 0 THEN 0 - n ELSE n

\* s[a:b] of a str, a and b 0-based and not negative
slice(s, a, b) ==
    LET hi == IF b > Len(s) THEN Len(s) ELSE b
    IN  IF a >= hi THEN "" ELSE SubSeq(s, a + 1, hi)

RECURSIVE f_str_of(_, _, _)
\* "".join(str(int(c)) if c.isdigit() and int(c) != 0 else "1" for c in code[1:])
\* from position i of code on; Raised when int(c) raises ValueError
f_str_of(code, i, out) ==
    IF i > Len(code) THEN Ok(out)
    ELSE LET c == CharAt(code, i)
         IN  IF isdigit(c)
             THEN LET v == int_of_str(c)
                  IN  IF ~v.ok THEN Raised
                      ELSE f_str_of(code, i + 1,
                                    out \o (IF v.n # 0 THEN str_int(v.n) ELSE "1"))
             ELSE f_str_of(code, i + 1, out \o "1")

\* the digit of code at the 0-based index, 0 on IndexError or ValueError
code_digit(code, index) ==
    IF index >= Len(code) THEN 0
    ELSE LET v == int_of_str(CharAt(code, index + 1))
         IN  IF v.ok THEN v.n ELSE 0

RECURSIVE key_loop(_, _, _, _, _, _)
\* the two nested loops of _generate_key, from (g, h) on
key_loop(code, f2, j, g, h, key) ==
    IF g > j THEN key
    ELSE IF h > 4 THEN key_loop(code, f2, j, g + 1, 1, key)
    ELSE LET d == code_digit(code, g + h)
             n0 == d + int_of_str(CharAt(f2, (g % Len(f2)) + 1)).n
             n == IF n0 >= 10 THEN n0 - 10 ELSE n0
         IN  key_loop(code, f2, j, g, h + 1, key \o str_int(n))

\* ThothubTO._generate_key(code): Ok(key), or Raised for a ValueError
generate_key(code) ==
    LET f == f_str_of(code, 2, "")
    IN  IF ~f.ok THEN Raised
        ELSE LET f_str == f.v
                 j == Len(f_str) \div 2
                 k == int_of_str(slice(f_str, 0, j + 1))
                 length == int_of_str(slice(f_str, j, Len(f_str)))
             IN  IF ~k.ok \/ ~length.ok THEN Raised
                 ELSE LET f2 == str_int((abs(length.n - k.n) + abs(k.n - length.n)) * 2)
                      IN  Ok(key_loop(code, f2, j, 0, 1, ""))

RECURSIVE sum_digits(_, _)
\* sum(int(d) for d in key[k:]) with k 0-based
sum_digits(key, k) ==
    IF k >= Len(key) THEN 0
    ELSE int_of_str(CharAt(key, k + 1)).n + sum_digits(key, k + 1)

\* the list with the elements at the 0-based positions a and b exchanged
swap(s, a, b) ==
    IF a = b THEN s
    ELSE LET lo == IF a < b THEN a ELSE b
             hi == IF a < b THEN b ELSE a
         IN  slice(s, 0, lo) \o CharAt(s, hi + 1) \o slice(s, lo + 1, hi)
             \o CharAt(s, lo + 1) \o slice(s, hi + 1, Len(s))

\* the buffer with the positions a and b filled from the input
exchange_from(original, s, a, b) ==
    IF a = b THEN s
    ELSE LET lo == IF a < b THEN a ELSE b
             hi == IF a < b THEN b ELSE a
         IN  slice(s, 0, lo) \o CharAt(original, hi + 1) \o slice(s, lo + 1, hi)
             \o CharAt(original, lo + 1) \o slice(s, hi + 1, Len(s))

RECURSIVE permute_from_original(_, _, _, _)
\* a permutation that takes the characters to exchange from the input
permute_from_original(original, prefix, key, k) ==
    IF k < 0 THEN prefix
    ELSE LET swap_idx == (k + sum_digits(key, k)) % Len(prefix)
         IN  permute_from_original(original, exchange_from(original, prefix, k, swap_idx),
                                   key, k - 1)

RECURSIVE permute(_, _, _)
\* the for loop of _deobfuscate_hash from k down to 0
permute(prefix, key, k) ==
    IF k < 0 THEN prefix
    ELSE LET swap_idx == (k + sum_digits(key, k)) % Len(prefix)
         IN  permute(swap(prefix, k, swap_idx), key, k - 1)

\* a deobfuscation whose exchanges read the input instead of the buffer
deobfuscate_hash_from_original(h, key) ==
    LET prefix == slice(h, 0, 32)
        suffix == slice(h, 32, Len(h))
    IN  permute_from_original(prefix, prefix, key, Len(prefix) - 1) \o suffix

\* ThothubTO._deobfuscate_hash(h, key)
deobfuscate_hash(h, key) ==
    LET prefix == slice(h, 0, 32)
        suffix == slice(h, 32, Len(h))
    IN  permute(prefix, key, Len(prefix) - 1) \o suffix

\* the characters license codes are drawn from
CodeChars == {"0", "3", "9", "a", "²"}

RECURSIVE CodesUpTo(_)
CodesUpTo(n) ==
    IF n = 0 THEN {""}
    ELSE LET shorter == CodesUpTo(n - 1)
         IN  shorter \cup {s \o c : s \in shorter, c \in CodeChars}

\* license codes as the player page carries them: the sigil and 15 digits
FullCodes == {"$432515114269431", "$100000000000000", "$999999999999999",
              "$519024681357902"}

LicenseCodes == {"$" \o s : s \in CodesUpTo(MaxCodeLen)} \cup FullCodes

\* the path segment handed to _deobfuscate_hash
Hashes == {"", "abc", "abcdefghijklmnopqrstuvwxyz01234",
           "abcdefghijklmnopqrstuvwxyz012345",
           "abcdefghijklmnopqrstuvwxyz012345XYZ",
           "0f1e2d3c4b5a69788796a5b4c3d2e1f0a1b2c3d4e5"}

CipherIdle == [code |-> "$", h |-> "", pc |-> "done", key |-> Raised, out |-> ""]

\* _extract_video: key = self._generate_key(license_code.group(1)); a
\* ValueError leaves the try block, and _extract_video returns None
GenerateKey ==
    /\ cipher.pc = "key"
    /\ LET key == generate_key(cipher.code)
       IN  cipher' = [cipher EXCEPT !.key = key,
                                    !.pc = IF key.ok THEN "hash" ELSE "done"]
    /\ UNCHANGED notCipher

\* _extract_video: parts[5] = self._deobfuscate_hash(parts[5], key)
DeobfuscateHash ==
    /\ cipher.pc = "hash"
    /\ cipher' = [cipher EXCEPT !.out = deobfuscate_hash(cipher.h, cipher.key.v),
                                !.pc = "done"]
    /\ UNCHANGED notCipher

NextCipher == GenerateKey \/ DeobfuscateHash

(***************************************************************************)
(* The legacy Cyberdrop plugin: the throttle of _get_file_info             *)
(***************************************************************************)
\* the monotonic clock counts ticks; no call is entered after this reading
MaxClock == 4

\* the Cyberdrop instances of the process
Instances == {1, 2}

\* rate_limit_seconds, in ticks
RateLimits == {0, 1, 2}

\* how the body of the try block ends: the metadata is returned, the response
\* is not usable (return None), get/raise_for_status raise RequestException,
\* response.json() raises ValueError
InfoOutcomes == {"data", "invalid", "RequestException", "ValueError"}

\* sleep_duration of _get_file_info, 0 when it does not sleep
sleep_duration(now, last_api_call_time, rate_limit_seconds) ==
    LET time_since_last_call == now - last_api_call_time
    IN  IF time_since_last_call < rate_limit_seconds
        THEN rate_limit_seconds - time_since_last_call
        ELSE 0

\* a bookkeeping that records the time of successful calls only
last_call_time_on_success(outcome, previous, monotonic) ==
    IF outcome = "data" THEN monotonic ELSE previous

\* finally: self._last_api_call_time = time.monotonic(), whatever the outcome
last_call_time_after(outcome, previous, monotonic) == monotonic

ThrottleIdle == [clock |-> 0, rate |-> [i \in Instances |-> 0],
                 last |-> [i \in Instances |-> 0],
                 finished |-> [i \in Instances |-> 0],
                 called |-> [i \in Instances |-> FALSE],
                 pc |-> "off", inst |-> 1, wait |-> 0, req_inst |-> 1,
                 issued_at |-> 0, since |-> 0, had_previous |-> FALSE,
                 outcome |-> "none"]

\* time passes between two calls
Tick ==
    /\ throttle.pc = "idle"
    /\ throttle.clock < MaxClock
    /\ throttle' = [throttle EXCEPT !.clock = throttle.clock + 1]
    /\ UNCHANGED notThrottle

\* _get_file_info entered on one instance: now = time.monotonic() and the
\* decision to sleep
GetFileInfoEnter ==
    /\ throttle.pc = "idle"
    /\ throttle.clock < MaxClock
    /\ \E i \in Instances :
          LET d == sleep_duration(throttle.clock, throttle.last[i], throttle.rate[i])
          IN  throttle' = [throttle EXCEPT !.inst = i, !.wait = d,
                                           !.pc = IF d > 0 THEN "sleep" ELSE "request"]
    /\ UNCHANGED notThrottle

\* time.sleep(sleep_duration): the thread is suspended for at least that long
Sleep ==
    /\ throttle.pc = "sleep"
    /\ \E extra \in 0..1 :
          throttle' = [throttle EXCEPT !.clock = throttle.clock + throttle.wait + extra,
                                       !.wait = 0, !.pc = "request"]
    /\ UNCHANGED notThrottle

\* the request is issued, its answer takes some time, and the finally clause
\* stores the clock; finished[i] keeps the time at which the call really ended
GetFileInfoRequest ==
    /\ throttle.pc = "request"
    /\ \E outcome \in InfoOutcomes, latency \in 0..1 :
          LET i == throttle.inst
              finished == throttle.clock + latency
          IN  throttle' = [throttle EXCEPT
                             !.req_inst = i,
                             !.issued_at = throttle.clock,
                             !.since = throttle.finished[i],
                             !.finished[i] = finished,
                             !.had_previous = throttle.called[i],
                             !.outcome = outcome,
                             !.clock = finished,
                             !.last[i] = last_call_time_after(outcome, throttle.last[i],
                                                              finished),
                             !.called[i] = TRUE,
                             !.pc = "idle"]
    /\ UNCHANGED notThrottle

NextThrottle == Tick \/ GetFileInfoEnter \/ Sleep \/ GetFileInfoRequest

(***************************************************************************)
(* Where a destination path lies: the orchestrators' paths as the          *)
(* filesystem resolves them                                                *)
(***************************************************************************)
\* the longest filename or collection name drawn character by character
MaxPathNameLen == 3

PathNameChars == {"a", ".", "/"}

RECURSIVE PathNamesUpTo(_)
PathNamesUpTo(n) ==
    IF n = 0 THEN {""}
    ELSE LET shorter == PathNamesUpTo(n - 1)
         IN  shorter \cup {s \o c : s \in shorter, c \in PathNameChars}

RECURSIVE path_parts(_, _, _)
\* the components of a path between its separators, empty ones included
path_parts(path, i, current) ==
    IF i > Len(path) THEN <<current>>
    ELSE IF CharAt(path, i) = "/" THEN <<current>> \o path_parts(path, i + 1, "")
    ELSE path_parts(path, i + 1, current \o CharAt(path, i))

RECURSIVE resolve_parts(_, _, _)
\* the directory walk the operating system makes for a relative or absolute
\* path without symbolic links: "" and "." stay, ".." goes up; a walk above
\* the starting point is recorded as "^"
resolve_parts(parts, i, stack) ==
    IF i > Len(parts) THEN stack
    ELSE LET part == parts[i]
         IN  IF part \in {"", "."} THEN resolve_parts(parts, i + 1, stack)
             ELSE IF part = ".."
             THEN resolve_parts(parts, i + 1,
                                IF Len(stack) > 0 /\ stack[Len(stack)] # "^"
                                THEN SubSeq(stack, 1, Len(stack) - 1)
                                ELSE Append(stack, "^"))
             ELSE resolve_parts(parts, i + 1, Append(stack, part))

\* the resolved location of a path; an absolute path is marked by a leading "/"
resolved(path) ==
    LET walk == resolve_parts(path_parts(path, 1, ""), 1, <<>>)
    IN  IF Len(path) > 0 /\ CharAt(path, 1) = "/" THEN <<"/">> \o walk ELSE walk

\* the resolved path lies strictly below the resolved root
is_strictly_inside(path, root) ==
    LET p == resolved(path)
        r == resolved(root)
    IN  /\ Len(p) > Len(r)
        /\ SubSeq(p, 1, Len(r)) = r

ContainIdle == [kind |-> "cli", flat |-> TRUE,
                item |-> [download_url |-> "u1", filename |-> "a", collection_name |-> ""],
                pc |-> "done", dest |-> ""]

\* the orchestrator computes the destination of one item: commands.py for the
\* CLI, download_file for the API
ComputeDestination ==
    /\ contain.pc = "item"
    /\ contain' = [contain EXCEPT !.dest = dest_of(contain.kind, contain.flat, contain.item),
                                  !.pc = "computed"]
    /\ UNCHANGED notContain

NextContain == ComputeDestination

(***************************************************************************)
(* The state of a component that is not in use                             *)
(***************************************************************************)
ResolverIdle ==
    [registry |-> PLUGIN_REGISTRY,
     rq |-> [op |-> "none", scheme |-> "", host |-> "", tail |-> "", arg |-> ""],
     rs |-> Pending]

DownloadIdle ==
    [orchestrator |-> "none", flat |-> FALSE, items |-> << >>,
     transfer |-> [u \in Urls |-> "ok"],
     fs0 |-> [p \in Paths |-> Absent], fs |-> [p \in Paths |-> Absent],
     idx |-> 0, pc |-> "done", success_count |-> 0, failed_count |-> 0,
     downloaded |-> << >>, failed |-> << >>, requests |-> 0, result |-> Pending,
     last |-> NoCall]

ExtractIdle ==
    [adapter |-> "none", gen |-> "none", consumer |-> "done", page |-> 1,
     links |-> << >>, li |-> 0, seen |-> {}, new_on_page |-> 0,
     yielded |-> << >>, reqlog |-> << >>]

\* one resolver call is about to be made, on a bare host or through extract(url)
InitResolver ==
    /\ registry = PLUGIN_REGISTRY
    /\ rs = Pending
    /\ \/ \E host \in Hosts :
             rq = [op |-> "get_plugin_class", scheme |-> "", host |-> host,
                   tail |-> "", arg |-> host]
       \/ \E scheme \in Schemes, host \in Hosts, tail \in UrlTails :
             rq = [op |-> "extract", scheme |-> scheme, host |-> host,
                   tail |-> tail, arg |-> scheme \o "://" \o host \o tail]
    /\ orchestrator = DownloadIdle.orchestrator
    /\ flat = DownloadIdle.flat
    /\ items = DownloadIdle.items
    /\ transfer = DownloadIdle.transfer
    /\ fs0 = DownloadIdle.fs0
    /\ fs = DownloadIdle.fs
    /\ idx = DownloadIdle.idx
    /\ pc = DownloadIdle.pc
    /\ success_count = DownloadIdle.success_count
    /\ failed_count = DownloadIdle.failed_count
    /\ downloaded = DownloadIdle.downloaded
    /\ failed = DownloadIdle.failed
    /\ requests = DownloadIdle.requests
    /\ result = DownloadIdle.result
    /\ last = DownloadIdle.last
    /\ adapter = ExtractIdle.adapter
    /\ gen = ExtractIdle.gen
    /\ consumer = ExtractIdle.consumer
    /\ page = ExtractIdle.page
    /\ links = ExtractIdle.links
    /\ li = ExtractIdle.li
    /\ seen = ExtractIdle.seen
    /\ new_on_page = ExtractIdle.new_on_page
    /\ yielded = ExtractIdle.yielded
    /\ reqlog = ExtractIdle.reqlog
    /\ bunkr = BunkrIdle
    /\ sanitize_call = SanitizeIdle
    /\ api = ApiIdle
    /\ extract_call = ExtractCallIdle
    /\ session = SessionIdle
    /\ collect = CollectIdle
    /\ legacy = LegacyIdle
    /\ constructed = ConstructIdle
    /\ bunkr_run = BunkrRunIdle
    /\ cipher = CipherIdle
    /\ throttle = ThrottleIdle
    /\ contain = ContainIdle

\* a batch is about to run; the destination of its first item may be left over
\* from an earlier run into the same directory
InitDownload ==
    /\ registry = ResolverIdle.registry
    /\ rq = ResolverIdle.rq
    /\ rs = ResolverIdle.rs
    /\ orchestrator \in {"cli", "api"}
    /\ flat \in BOOLEAN
    /\ items \in Batches
    /\ transfer \in [Urls -> Outcomes]
    /\ \E leftover \in BOOLEAN :
          fs0 = [p \in Paths |->
                   IF leftover /\ p = dest_of(orchestrator, flat, items[1])
                   THEN OldContent ELSE Absent]
    /\ fs = fs0
    /\ idx = 0
    /\ pc = "loop"
    /\ success_count = 0
    /\ failed_count = 0
    /\ downloaded = << >>
    /\ failed = << >>
    /\ requests = 0
    /\ result = Pending
    /\ last = NoCall
    /\ adapter = ExtractIdle.adapter
    /\ gen = ExtractIdle.gen
    /\ consumer = ExtractIdle.consumer
    /\ page = ExtractIdle.page
    /\ links = ExtractIdle.links
    /\ li = ExtractIdle.li
    /\ seen = ExtractIdle.seen
    /\ new_on_page = ExtractIdle.new_on_page
    /\ yielded = ExtractIdle.yielded
    /\ reqlog = ExtractIdle.reqlog
    /\ bunkr = BunkrIdle
    /\ sanitize_call = SanitizeIdle
    /\ api = ApiIdle
    /\ extract_call = ExtractCallIdle
    /\ session = SessionIdle
    /\ collect = CollectIdle
    /\ legacy = LegacyIdle
    /\ constructed = ConstructIdle
    /\ bunkr_run = BunkrRunIdle
    /\ cipher = CipherIdle
    /\ throttle = ThrottleIdle
    /\ contain = ContainIdle

\* extract(url) is about to be called on a ThothubTO model URL or a Cyberdrop
\* album URL
InitExtract ==
    /\ registry = ResolverIdle.registry
    /\ rq = ResolverIdle.rq
    /\ rs = ResolverIdle.rs
    /\ orchestrator = DownloadIdle.orchestrator
    /\ flat = DownloadIdle.flat
    /\ items = DownloadIdle.items
    /\ transfer = DownloadIdle.transfer
    /\ fs0 = DownloadIdle.fs0
    /\ fs = DownloadIdle.fs
    /\ idx = DownloadIdle.idx
    /\ pc = DownloadIdle.pc
    /\ success_count = DownloadIdle.success_count
    /\ failed_count = DownloadIdle.failed_count
    /\ downloaded = DownloadIdle.downloaded
    /\ failed = DownloadIdle.failed
    /\ requests = DownloadIdle.requests
    /\ result = DownloadIdle.result
    /\ last = DownloadIdle.last
    /\ adapter \in {"thothub_to", "cyberdrop"}
    /\ gen = "none"
    /\ consumer = "idle"
    /\ page = IF adapter = "thothub_to" THEN 1 ELSE 0
    /\ links = << >>
    /\ li = 0
    /\ seen = {}
    /\ new_on_page = 0
    /\ yielded = << >>
    /\ reqlog = << >>
    /\ bunkr = BunkrIdle
    /\ sanitize_call = SanitizeIdle
    /\ api = ApiIdle
    /\ extract_call = ExtractCallIdle
    /\ session = SessionIdle
    /\ collect = CollectIdle
    /\ legacy = LegacyIdle
    /\ constructed = ConstructIdle
    /\ bunkr_run = BunkrRunIdle
    /\ cipher = CipherIdle
    /\ throttle = ThrottleIdle
    /\ contain = ContainIdle

\* _fetch_direct_url is about to be called with what the API answered
InitBunkr ==
    /\ registry = ResolverIdle.registry
    /\ rq = ResolverIdle.rq
    /\ rs = ResolverIdle.rs
    /\ orchestrator = DownloadIdle.orchestrator
    /\ flat = DownloadIdle.flat
    /\ items = DownloadIdle.items
    /\ transfer = DownloadIdle.transfer
    /\ fs0 = DownloadIdle.fs0
    /\ fs = DownloadIdle.fs
    /\ idx = DownloadIdle.idx
    /\ pc = DownloadIdle.pc
    /\ success_count = DownloadIdle.success_count
    /\ failed_count = DownloadIdle.failed_count
    /\ downloaded = DownloadIdle.downloaded
    /\ failed = DownloadIdle.failed
    /\ requests = DownloadIdle.requests
    /\ result = DownloadIdle.result
    /\ last = DownloadIdle.last
    /\ adapter = ExtractIdle.adapter
    /\ gen = ExtractIdle.gen
    /\ consumer = ExtractIdle.consumer
    /\ page = ExtractIdle.page
    /\ links = ExtractIdle.links
    /\ li = ExtractIdle.li
    /\ seen = ExtractIdle.seen
    /\ new_on_page = ExtractIdle.new_on_page
    /\ yielded = ExtractIdle.yielded
    /\ reqlog = ExtractIdle.reqlog
    /\ \E response \in ApiResponses, filename \in Filenames :
          bunkr = [response |-> response, filename |-> filename,
                   direct_url |-> NotCalled]
    /\ sanitize_call = SanitizeIdle
    /\ api = ApiIdle
    /\ extract_call = ExtractCallIdle
    /\ session = SessionIdle
    /\ collect = CollectIdle
    /\ legacy = LegacyIdle
    /\ constructed = ConstructIdle
    /\ bunkr_run = BunkrRunIdle
    /\ cipher = CipherIdle
    /\ throttle = ThrottleIdle
    /\ contain = ContainIdle

\* sanitize_for_filesystem is about to be called on a name
InitSanitize ==
    /\ registry = ResolverIdle.registry
    /\ rq = ResolverIdle.rq
    /\ rs = ResolverIdle.rs
    /\ orchestrator = DownloadIdle.orchestrator
    /\ flat = DownloadIdle.flat
    /\ items = DownloadIdle.items
    /\ transfer = DownloadIdle.transfer
    /\ fs0 = DownloadIdle.fs0
    /\ fs = DownloadIdle.fs
    /\ idx = DownloadIdle.idx
    /\ pc = DownloadIdle.pc
    /\ success_count = DownloadIdle.success_count
    /\ failed_count = DownloadIdle.failed_count
    /\ downloaded = DownloadIdle.downloaded
    /\ failed = DownloadIdle.failed
    /\ requests = DownloadIdle.requests
    /\ result = DownloadIdle.result
    /\ last = DownloadIdle.last
    /\ adapter = ExtractIdle.adapter
    /\ gen = ExtractIdle.gen
    /\ consumer = ExtractIdle.consumer
    /\ page = ExtractIdle.page
    /\ links = ExtractIdle.links
    /\ li = ExtractIdle.li
    /\ seen = ExtractIdle.seen
    /\ new_on_page = ExtractIdle.new_on_page
    /\ yielded = ExtractIdle.yielded
    /\ reqlog = ExtractIdle.reqlog
    /\ bunkr = BunkrIdle
    /\ \E name \in NamesUpTo(MaxNameLen) :
          sanitize_call = [name |-> name, done |-> FALSE, out |-> ""]
    /\ api = ApiIdle
    /\ extract_call = ExtractCallIdle
    /\ session = SessionIdle
    /\ collect = CollectIdle
    /\ legacy = LegacyIdle
    /\ constructed = ConstructIdle
    /\ bunkr_run = BunkrRunIdle
    /\ cipher = CipherIdle
    /\ throttle = ThrottleIdle
    /\ contain = ContainIdle

\* extract_items has returned 1..MaxApiItems items and the size probe starts
InitApi ==
    /\ registry = ResolverIdle.registry
    /\ rq = ResolverIdle.rq
    /\ rs = ResolverIdle.rs
    /\ orchestrator = DownloadIdle.orchestrator
    /\ flat = DownloadIdle.flat
    /\ items = DownloadIdle.items
    /\ transfer = DownloadIdle.transfer
    /\ fs0 = DownloadIdle.fs0
    /\ fs = DownloadIdle.fs
    /\ idx = DownloadIdle.idx
    /\ pc = DownloadIdle.pc
    /\ success_count = DownloadIdle.success_count
    /\ failed_count = DownloadIdle.failed_count
    /\ downloaded = DownloadIdle.downloaded
    /\ failed = DownloadIdle.failed
    /\ requests = DownloadIdle.requests
    /\ result = DownloadIdle.result
    /\ last = DownloadIdle.last
    /\ adapter = ExtractIdle.adapter
    /\ gen = ExtractIdle.gen
    /\ consumer = ExtractIdle.consumer
    /\ page = ExtractIdle.page
    /\ links = ExtractIdle.links
    /\ li = ExtractIdle.li
    /\ seen = ExtractIdle.seen
    /\ new_on_page = ExtractIdle.new_on_page
    /\ yielded = ExtractIdle.yielded
    /\ reqlog = ExtractIdle.reqlog
    /\ bunkr = BunkrIdle
    /\ sanitize_call = SanitizeIdle
    /\ \E n \in 1..MaxApiItems :
          api = [pc |-> "probe", n |-> n, i |-> 0, sizes |-> << >>, total_size |-> 0,
                 head |-> NoHead, temp_dir |-> "none", handed |-> 0,
                 download_calls |-> 0, response |-> "pending"]
    /\ extract_call = ExtractCallIdle
    /\ session = SessionIdle
    /\ collect = CollectIdle
    /\ legacy = LegacyIdle
    /\ constructed = ConstructIdle
    /\ bunkr_run = BunkrRunIdle
    /\ cipher = CipherIdle
    /\ throttle = ThrottleIdle
    /\ contain = ContainIdle

\* extract(url) has been called and returned its generator
InitExtractCall ==
    /\ registry = ResolverIdle.registry
    /\ rq = ResolverIdle.rq
    /\ rs = ResolverIdle.rs
    /\ orchestrator = DownloadIdle.orchestrator
    /\ flat = DownloadIdle.flat
    /\ items = DownloadIdle.items
    /\ transfer = DownloadIdle.transfer
    /\ fs0 = DownloadIdle.fs0
    /\ fs = DownloadIdle.fs
    /\ idx = DownloadIdle.idx
    /\ pc = DownloadIdle.pc
    /\ success_count = DownloadIdle.success_count
    /\ failed_count = DownloadIdle.failed_count
    /\ downloaded = DownloadIdle.downloaded
    /\ failed = DownloadIdle.failed
    /\ requests = DownloadIdle.requests
    /\ result = DownloadIdle.result
    /\ last = DownloadIdle.last
    /\ adapter = ExtractIdle.adapter
    /\ gen = ExtractIdle.gen
    /\ consumer = ExtractIdle.consumer
    /\ page = ExtractIdle.page
    /\ links = ExtractIdle.links
    /\ li = ExtractIdle.li
    /\ seen = ExtractIdle.seen
    /\ new_on_page = ExtractIdle.new_on_page
    /\ yielded = ExtractIdle.yielded
    /\ reqlog = ExtractIdle.reqlog
    /\ bunkr = BunkrIdle
    /\ sanitize_call = SanitizeIdle
    /\ api = ApiIdle
    /\ \E url \in ExtractUrls :
          extract_call = [url |-> url, pc |-> "created", plugin |-> None,
                          phase |-> "none", original |-> "none", raised |-> NoError,
                          yielded |-> 0]
    /\ session = SessionIdle
    /\ collect = CollectIdle
    /\ legacy = LegacyIdle
    /\ constructed = ConstructIdle
    /\ bunkr_run = BunkrRunIdle
    /\ cipher = CipherIdle
    /\ throttle = ThrottleIdle
    /\ contain = ContainIdle

\* a plugin is about to send a request through its session
InitSession ==
    /\ registry = ResolverIdle.registry
    /\ rq = ResolverIdle.rq
    /\ rs = ResolverIdle.rs
    /\ orchestrator = DownloadIdle.orchestrator
    /\ flat = DownloadIdle.flat
    /\ items = DownloadIdle.items
    /\ transfer = DownloadIdle.transfer
    /\ fs0 = DownloadIdle.fs0
    /\ fs = DownloadIdle.fs
    /\ idx = DownloadIdle.idx
    /\ pc = DownloadIdle.pc
    /\ success_count = DownloadIdle.success_count
    /\ failed_count = DownloadIdle.failed_count
    /\ downloaded = DownloadIdle.downloaded
    /\ failed = DownloadIdle.failed
    /\ requests = DownloadIdle.requests
    /\ result = DownloadIdle.result
    /\ last = DownloadIdle.last
    /\ adapter = ExtractIdle.adapter
    /\ gen = ExtractIdle.gen
    /\ consumer = ExtractIdle.consumer
    /\ page = ExtractIdle.page
    /\ links = ExtractIdle.links
    /\ li = ExtractIdle.li
    /\ seen = ExtractIdle.seen
    /\ new_on_page = ExtractIdle.new_on_page
    /\ yielded = ExtractIdle.yielded
    /\ reqlog = ExtractIdle.reqlog
    /\ bunkr = BunkrIdle
    /\ sanitize_call = SanitizeIdle
    /\ api = ApiIdle
    /\ extract_call = ExtractCallIdle
    /\ \E method \in Methods :
          session = [method |-> method, total |-> RETRY_TOTAL, attempts |-> 0,
                     retried_after |-> {}, result |-> "pending"]
    /\ collect = CollectIdle
    /\ legacy = LegacyIdle
    /\ constructed = ConstructIdle
    /\ bunkr_run = BunkrRunIdle
    /\ cipher = CipherIdle
    /\ throttle = ThrottleIdle
    /\ contain = ContainIdle

\* extract_items(url, domain) starts to iterate megaloader.extract(url)
InitCollect ==
    /\ registry = ResolverIdle.registry
    /\ rq = ResolverIdle.rq
    /\ rs = ResolverIdle.rs
    /\ orchestrator = DownloadIdle.orchestrator
    /\ flat = DownloadIdle.flat
    /\ items = DownloadIdle.items
    /\ transfer = DownloadIdle.transfer
    /\ fs0 = DownloadIdle.fs0
    /\ fs = DownloadIdle.fs
    /\ idx = DownloadIdle.idx
    /\ pc = DownloadIdle.pc
    /\ success_count = DownloadIdle.success_count
    /\ failed_count = DownloadIdle.failed_count
    /\ downloaded = DownloadIdle.downloaded
    /\ failed = DownloadIdle.failed
    /\ requests = DownloadIdle.requests
    /\ result = DownloadIdle.result
    /\ last = DownloadIdle.last
    /\ adapter = ExtractIdle.adapter
    /\ gen = ExtractIdle.gen
    /\ consumer = ExtractIdle.consumer
    /\ page = ExtractIdle.page
    /\ links = ExtractIdle.links
    /\ li = ExtractIdle.li
    /\ seen = ExtractIdle.seen
    /\ new_on_page = ExtractIdle.new_on_page
    /\ yielded = ExtractIdle.yielded
    /\ reqlog = ExtractIdle.reqlog
    /\ bunkr = BunkrIdle
    /\ sanitize_call = SanitizeIdle
    /\ api = ApiIdle
    /\ extract_call = ExtractCallIdle
    /\ session = SessionIdle
    /\ \E source \in Sources :
          collect = [source |-> source, pulled |-> 0, items |-> 0,
                     result |-> "pending", returned |-> 0]
    /\ legacy = LegacyIdle
    /\ constructed = ConstructIdle
    /\ bunkr_run = BunkrRunIdle
    /\ cipher = CipherIdle
    /\ throttle = ThrottleIdle
    /\ contain = ContainIdle

\* download(url, output_dir) of the legacy package is called
InitLegacy ==
    /\ registry = ResolverIdle.registry
    /\ rq = ResolverIdle.rq
    /\ rs = ResolverIdle.rs
    /\ orchestrator = DownloadIdle.orchestrator
    /\ flat = DownloadIdle.flat
    /\ items = DownloadIdle.items
    /\ transfer = DownloadIdle.transfer
    /\ fs0 = DownloadIdle.fs0
    /\ fs = DownloadIdle.fs
    /\ idx = DownloadIdle.idx
    /\ pc = DownloadIdle.pc
    /\ success_count = DownloadIdle.success_count
    /\ failed_count = DownloadIdle.failed_count
    /\ downloaded = DownloadIdle.downloaded
    /\ failed = DownloadIdle.failed
    /\ requests = DownloadIdle.requests
    /\ result = DownloadIdle.result
    /\ last = DownloadIdle.last
    /\ adapter = ExtractIdle.adapter
    /\ gen = ExtractIdle.gen
    /\ consumer = ExtractIdle.consumer
    /\ page = ExtractIdle.page
    /\ links = ExtractIdle.links
    /\ li = ExtractIdle.li
    /\ seen = ExtractIdle.seen
    /\ new_on_page = ExtractIdle.new_on_page
    /\ yielded = ExtractIdle.yielded
    /\ reqlog = ExtractIdle.reqlog
    /\ bunkr = BunkrIdle
    /\ sanitize_call = SanitizeIdle
    /\ api = ApiIdle
    /\ extract_call = ExtractCallIdle
    /\ session = SessionIdle
    /\ collect = CollectIdle
    /\ \E prepare \in PrepareOutcomes, files \in ExportsUpTo(MaxExport) :
          legacy = [prepare |-> prepare, files |-> files, pc |-> "start", i |-> 0,
                    success_count |-> 0, returned |-> "none"]
    /\ constructed = ConstructIdle
    /\ bunkr_run = BunkrRunIdle
    /\ cipher = CipherIdle
    /\ throttle = ThrottleIdle
    /\ contain = ContainIdle

\* no DownloadItem has been constructed yet
InitConstruct ==
    /\ registry = ResolverIdle.registry
    /\ rq = ResolverIdle.rq
    /\ rs = ResolverIdle.rs
    /\ orchestrator = DownloadIdle.orchestrator
    /\ flat = DownloadIdle.flat
    /\ items = DownloadIdle.items
    /\ transfer = DownloadIdle.transfer
    /\ fs0 = DownloadIdle.fs0
    /\ fs = DownloadIdle.fs
    /\ idx = DownloadIdle.idx
    /\ pc = DownloadIdle.pc
    /\ success_count = DownloadIdle.success_count
    /\ failed_count = DownloadIdle.failed_count
    /\ downloaded = DownloadIdle.downloaded
    /\ failed = DownloadIdle.failed
    /\ requests = DownloadIdle.requests
    /\ result = DownloadIdle.result
    /\ last = DownloadIdle.last
    /\ adapter = ExtractIdle.adapter
    /\ gen = ExtractIdle.gen
    /\ consumer = ExtractIdle.consumer
    /\ page = ExtractIdle.page
    /\ links = ExtractIdle.links
    /\ li = ExtractIdle.li
    /\ seen = ExtractIdle.seen
    /\ new_on_page = ExtractIdle.new_on_page
    /\ yielded = ExtractIdle.yielded
    /\ reqlog = ExtractIdle.reqlog
    /\ bunkr = BunkrIdle
    /\ sanitize_call = SanitizeIdle
    /\ api = ApiIdle
    /\ extract_call = ExtractCallIdle
    /\ session = SessionIdle
    /\ collect = CollectIdle
    /\ legacy = LegacyIdle
    /\ constructed = [objects |-> {}, calls |-> 0,
                      args |-> [download_url |-> PyNone, filename |-> PyNone],
                      outcome |-> "none"]
    /\ bunkr_run = BunkrRunIdle
    /\ cipher = CipherIdle
    /\ throttle = ThrottleIdle
    /\ contain = ContainIdle

\* list(plugin.extract()) or list(plugin.export()) on a Bunkr plugin begins
InitBunkrRun ==
    /\ registry = ResolverIdle.registry
    /\ rq = ResolverIdle.rq
    /\ rs = ResolverIdle.rs
    /\ orchestrator = DownloadIdle.orchestrator
    /\ flat = DownloadIdle.flat
    /\ items = DownloadIdle.items
    /\ transfer = DownloadIdle.transfer
    /\ fs0 = DownloadIdle.fs0
    /\ fs = DownloadIdle.fs
    /\ idx = DownloadIdle.idx
    /\ pc = DownloadIdle.pc
    /\ success_count = DownloadIdle.success_count
    /\ failed_count = DownloadIdle.failed_count
    /\ downloaded = DownloadIdle.downloaded
    /\ failed = DownloadIdle.failed
    /\ requests = DownloadIdle.requests
    /\ result = DownloadIdle.result
    /\ last = DownloadIdle.last
    /\ adapter = ExtractIdle.adapter
    /\ gen = ExtractIdle.gen
    /\ consumer = ExtractIdle.consumer
    /\ page = ExtractIdle.page
    /\ links = ExtractIdle.links
    /\ li = ExtractIdle.li
    /\ seen = ExtractIdle.seen
    /\ new_on_page = ExtractIdle.new_on_page
    /\ yielded = ExtractIdle.yielded
    /\ reqlog = ExtractIdle.reqlog
    /\ bunkr = BunkrIdle
    /\ sanitize_call = SanitizeIdle
    /\ api = ApiIdle
    /\ extract_call = ExtractCallIdle
    /\ session = SessionIdle
    /\ collect = CollectIdle
    /\ legacy = LegacyIdle
    /\ constructed = ConstructIdle
    /\ \E impl \in {"core", "legacy"}, path \in BunkrPaths, first \in FetchOutcomes,
          pages \in FilePageLists :
          bunkr_run = [impl |-> impl, path |-> path, first |-> first, pages |-> pages,
                       pc |-> "start", k |-> 0, yielded |-> 0, raised |-> NoException]
    /\ cipher = CipherIdle
    /\ throttle = ThrottleIdle
    /\ contain = ContainIdle

\* _extract_video has matched a license code and a video URL
InitCipher ==
    /\ registry = ResolverIdle.registry
    /\ rq = ResolverIdle.rq
    /\ rs = ResolverIdle.rs
    /\ orchestrator = DownloadIdle.orchestrator
    /\ flat = DownloadIdle.flat
    /\ items = DownloadIdle.items
    /\ transfer = DownloadIdle.transfer
    /\ fs0 = DownloadIdle.fs0
    /\ fs = DownloadIdle.fs
    /\ idx = DownloadIdle.idx
    /\ pc = DownloadIdle.pc
    /\ success_count = DownloadIdle.success_count
    /\ failed_count = DownloadIdle.failed_count
    /\ downloaded = DownloadIdle.downloaded
    /\ failed = DownloadIdle.failed
    /\ requests = DownloadIdle.requests
    /\ result = DownloadIdle.result
    /\ last = DownloadIdle.last
    /\ adapter = ExtractIdle.adapter
    /\ gen = ExtractIdle.gen
    /\ consumer = ExtractIdle.consumer
    /\ page = ExtractIdle.page
    /\ links = ExtractIdle.links
    /\ li = ExtractIdle.li
    /\ seen = ExtractIdle.seen
    /\ new_on_page = ExtractIdle.new_on_page
    /\ yielded = ExtractIdle.yielded
    /\ reqlog = ExtractIdle.reqlog
    /\ bunkr = BunkrIdle
    /\ sanitize_call = SanitizeIdle
    /\ api = ApiIdle
    /\ extract_call = ExtractCallIdle
    /\ session = SessionIdle
    /\ collect = CollectIdle
    /\ legacy = LegacyIdle
    /\ constructed = ConstructIdle
    /\ bunkr_run = BunkrRunIdle
    /\ \E code \in LicenseCodes, h \in Hashes :
          cipher = [code |-> code, h |-> h, pc |-> "key", key |-> Raised, out |-> ""]
    /\ throttle = ThrottleIdle
    /\ contain = ContainIdle

\* Cyberdrop.__init__ has run for each instance: _last_api_call_time = 0.0
InitThrottle ==
    /\ registry = ResolverIdle.registry
    /\ rq = ResolverIdle.rq
    /\ rs = ResolverIdle.rs
    /\ orchestrator = DownloadIdle.orchestrator
    /\ flat = DownloadIdle.flat
    /\ items = DownloadIdle.items
    /\ transfer = DownloadIdle.transfer
    /\ fs0 = DownloadIdle.fs0
    /\ fs = DownloadIdle.fs
    /\ idx = DownloadIdle.idx
    /\ pc = DownloadIdle.pc
    /\ success_count = DownloadIdle.success_count
    /\ failed_count = DownloadIdle.failed_count
    /\ downloaded = DownloadIdle.downloaded
    /\ failed = DownloadIdle.failed
    /\ requests = DownloadIdle.requests
    /\ result = DownloadIdle.result
    /\ last = DownloadIdle.last
    /\ adapter = ExtractIdle.adapter
    /\ gen = ExtractIdle.gen
    /\ consumer = ExtractIdle.consumer
    /\ page = ExtractIdle.page
    /\ links = ExtractIdle.links
    /\ li = ExtractIdle.li
    /\ seen = ExtractIdle.seen
    /\ new_on_page = ExtractIdle.new_on_page
    /\ yielded = ExtractIdle.yielded
    /\ reqlog = ExtractIdle.reqlog
    /\ bunkr = BunkrIdle
    /\ sanitize_call = SanitizeIdle
    /\ api = ApiIdle
    /\ extract_call = ExtractCallIdle
    /\ session = SessionIdle
    /\ collect = CollectIdle
    /\ legacy = LegacyIdle
    /\ constructed = ConstructIdle
    /\ bunkr_run = BunkrRunIdle
    /\ cipher = CipherIdle
    /\ \E clock \in 0..1, rate \in [Instances -> RateLimits] :
          throttle = [clock |-> clock, rate |-> rate,
                      last |-> [i \in Instances |-> 0],
                      finished |-> [i \in Instances |-> 0],
                      called |-> [i \in Instances |-> FALSE],
                      pc |-> "idle", inst |-> 1, wait |-> 0, req_inst |-> 1,
                      issued_at |-> 0, since |-> 0, had_previous |-> FALSE,
                      outcome |-> "none"]
    /\ contain = ContainIdle

\* an orchestrator reaches an item whose names come from the remote site
InitContain ==
    /\ registry = ResolverIdle.registry
    /\ rq = ResolverIdle.rq
    /\ rs = ResolverIdle.rs
    /\ orchestrator = DownloadIdle.orchestrator
    /\ flat = DownloadIdle.flat
    /\ items = DownloadIdle.items
    /\ transfer = DownloadIdle.transfer
    /\ fs0 = DownloadIdle.fs0
    /\ fs = DownloadIdle.fs
    /\ idx = DownloadIdle.idx
    /\ pc = DownloadIdle.pc
    /\ success_count = DownloadIdle.success_count
    /\ failed_count = DownloadIdle.failed_count
    /\ downloaded = DownloadIdle.downloaded
    /\ failed = DownloadIdle.failed
    /\ requests = DownloadIdle.requests
    /\ result = DownloadIdle.result
    /\ last = DownloadIdle.last
    /\ adapter = ExtractIdle.adapter
    /\ gen = ExtractIdle.gen
    /\ consumer = ExtractIdle.consumer
    /\ page = ExtractIdle.page
    /\ links = ExtractIdle.links
    /\ li = ExtractIdle.li
    /\ seen = ExtractIdle.seen
    /\ new_on_page = ExtractIdle.new_on_page
    /\ yielded = ExtractIdle.yielded
    /\ reqlog = ExtractIdle.reqlog
    /\ bunkr = BunkrIdle
    /\ sanitize_call = SanitizeIdle
    /\ api = ApiIdle
    /\ extract_call = ExtractCallIdle
    /\ session = SessionIdle
    /\ collect = CollectIdle
    /\ legacy = LegacyIdle
    /\ constructed = ConstructIdle
    /\ bunkr_run = BunkrRunIdle
    /\ cipher = CipherIdle
    /\ throttle = ThrottleIdle
    /\ \E kind \in {"cli", "api"}, isFlat \in BOOLEAN,
          filename \in PathNamesUpTo(MaxPathNameLen) \ {""},
          collection_name \in PathNamesUpTo(MaxPathNameLen) :
          contain = [kind |-> kind, flat |-> isFlat,
                     item |-> [download_url |-> "u1", filename |-> filename,
                               collection_name |-> collection_name],
                     pc |-> "item", dest |-> ""]

(***************************************************************************)
(* Specifications                                                          *)
(***************************************************************************)
SpecResolver == InitResolver /\ [][NextResolver]_vars

SpecDownload == InitDownload /\ [][NextDownload]_vars

SpecExtract == InitExtract /\ [][NextExtract]_vars

SpecBunkr == InitBunkr /\ [][NextBunkr]_vars

SpecSanitize == InitSanitize /\ [][NextSanitize]_vars

SpecApi == InitApi /\ [][NextApi]_vars

SpecExtractCall == InitExtractCall /\ [][NextExtractCall]_vars

SpecSession == InitSession /\ [][NextSession]_vars

SpecCollect == InitCollect /\ [][NextCollect]_vars

SpecLegacy == InitLegacy /\ [][NextLegacy]_vars

SpecConstruct == InitConstruct /\ [][NextConstruct]_vars

SpecBunkrRun == InitBunkrRun /\ [][NextBunkrRun]_vars

SpecCipher == InitCipher /\ [][NextCipher]_vars

SpecThrottle == InitThrottle /\ [][NextThrottle]_vars

SpecContain == InitContain /\ [][NextContain]_vars

(***************************************************************************)
(* Claims about the resolver                                               *)
(***************************************************************************)
\* the plugin registered under key k
EntryOf(k) == CHOOSE p \in { PLUGIN_REGISTRY[i][2] : i \in 1..Len(PLUGIN_REGISTRY) } :
                  \E i \in 1..Len(PLUGIN_REGISTRY) : PLUGIN_REGISTRY[i] = <<k, p>>

SubdomainBases == { SUBDOMAIN_SUPPORTED[i] : i \in 1..Len(SUBDOMAIN_SUPPORTED) }

\* C9: get_plugin_class(host) lowercases and trims host, then returns the entry
\* of host when host is a registry key; otherwise the entry of a
\* subdomain-enabled base B with host ending in "." B; otherwise the entry of a
\* registry key contained in host; otherwise None.  An earlier rule wins over a
\* later one and the registry is not changed.
C9_ResolutionOrder ==
    /\ registry = PLUGIN_REGISTRY
    /\ (rq.op = "get_plugin_class" /\ rs # Pending) =>
         LET n         == strip(lower(rq.host))
             bases     == { B \in SubdomainBases : endswith(n, "." \o B) }
             contained == { k \in RegistryKeys : contains(k, n) }
         IN  IF n \in RegistryKeys THEN rs = EntryOf(n)
             ELSE IF bases # {} THEN rs \in { EntryOf(B) : B \in bases }
             ELSE IF contained # {} THEN rs \in { EntryOf(k) : k \in contained }
             ELSE rs = None

\* a host that the subdomain rule and the substring rule would resolve differently
C9_Witness ==
    /\ rq.op = "get_plugin_class"
    /\ rq.host = "BUNKR.SI.FANBOX.CC "
    /\ rs = "Fanbox"

\* C10: resolving scheme://Host/path?query, in any letter case of the host and
\* with any scheme, path and query, gives what resolving the lowercase bare host
\* gives: the same plugin, or unsupported for both.
C10_CaseSchemePathInsensitive ==
    (rq.op = "extract" /\ rs # Pending) =>
        LET bare == get_plugin_class(registry, lower(rq.host))
        IN  rs = IF bare = None THEN "UnsupportedDomainError" ELSE bare

C10_Witness ==
    /\ rq.op = "extract"
    /\ rq.scheme = "HTTPS"
    /\ rq.host = "CREATOR.FANBOX.CC"
    /\ rq.tail = "/a/bunkr.si?q=1"
    /\ rs = "Fanbox"

(***************************************************************************)
(* Claims about the download orchestrators                                 *)
(***************************************************************************)
\* the destination of the item the CLI loop processes next
NextCliDest == cli_dest_path(BaseDir, flat, items[idx + 1])

\* C1: whenever the destination of an item already exists when the CLI's
\* download_file is called, the call reports success, issues no network request
\* and leaves every file as it is, whatever was downloaded into the directory
\* before.
C1_SkipExisting ==
    [][ ( /\ orchestrator = "cli"
          /\ pc = "loop"
          /\ idx < Len(items)
          /\ fs[NextCliDest] # Absent )
        => ( /\ idx' = idx + 1
             /\ success_count' = success_count + 1
             /\ failed_count' = failed_count
             /\ requests' = requests
             /\ fs' = fs
             /\ result' = result ) ]_vars

\* an item is skipped because an earlier item of the batch wrote its destination,
\* although fetching its own URL would have failed
C1_Witness ==
    /\ orchestrator = "cli"
    /\ last.existed
    /\ last.before = Body("u2")
    /\ last.outcome = "request_error"
    /\ last.ret
    /\ success_count = 2

\* C2: a download that fails, for whatever reason, leaves no file at its
\* destination, reports the failure as its return value and raises nothing into
\* the batch loop.
C2_FailureReturnsFalse ==
    ( /\ orchestrator = "cli"
      /\ last.requests > 0
      /\ last.outcome # "ok" )
    => ( /\ last.raised = NoException
         /\ last.ret = FALSE
         /\ fs[last.dest] = Absent )

C4_EveryItemAttempted ==
    ( /\ orchestrator \in {"cli", "api"}
      /\ pc = "done" )
    => ( /\ idx = Len(items)
         /\ success_count + failed_count = Len(items)
         /\ Len(failed) = failed_count )

\* the outcome of a CLI batch: the exception that left it, or its counts and
\* the set of failed filenames
Aggregate(raised, sc, fc, fl) ==
    IF raised # NoException
    THEN [raised |-> raised, succeeded |-> 0, failed |-> 0, names |-> {}]
    ELSE [raised |-> NoException, succeeded |-> sc, failed |-> fc,
          names |-> { fl[i] : i \in 1..Len(fl) }]

RECURSIVE CliRun(_, _, _, _, _, _)
\* the CLI loop over the items order[k], order[k+1], ... from the files given
CliRun(order, k, files, sc, fc, fl) ==
    IF k > Len(order) THEN Aggregate(NoException, sc, fc, fl)
    ELSE LET item == order[k]
             r    == cli_download_file(files, item, cli_dest_path(BaseDir, flat, item),
                                       transfer[item.download_url])
         IN  IF r.raised # NoException THEN Aggregate(r.raised, sc, fc, fl)
             ELSE IF r.ret THEN CliRun(order, k + 1, r.files, sc + 1, fc, fl)
             ELSE CliRun(order, k + 1, r.files, sc, fc + 1, Append(fl, item.filename))

ProcessingOrders(n) == { f \in [1..n -> 1..n] : \A i, j \in 1..n : f[i] = f[j] => i = j }

\* the outcome of the batch that is over
ThisOutcome ==
    Aggregate(IF result \in {"success", "SystemExit(1)"} THEN NoException ELSE result,
              success_count, failed_count, failed)

OrderIndependent ==
    \A f \in ProcessingOrders(Len(items)) :
        CliRun([i \in 1..Len(items) |-> items[f[i]]], 1, fs0, 0, 0, << >>) = ThisOutcome

DistinctDestinations ==
    \A i, j \in 1..Len(items) :
        cli_dest_path(BaseDir, flat, items[i]) = cli_dest_path(BaseDir, flat, items[j])
            => i = j

C6_NoDuplicateDownloadUrl ==
    \A i, j \in 1..Len(yielded) :
        yielded[i].download_url = yielded[j].download_url => i = j

C8_StopsWhenNoNewLinks ==
    [][ ( /\ adapter = "thothub_to"
          /\ gen = "running"
          /\ links # << >>
          /\ li = Len(links)
          /\ new_on_page = 0 )
        => ( /\ reqlog' = reqlog
             /\ gen' = "finished" ) ]_vars

(***************************************************************************)
(* Claims about the Bunkr XOR resolver                                     *)
(***************************************************************************)
\* the key the specification names: ASCII("SECRET_KEY_" + floor(timestamp / 3600))
ReferenceKey(timestamp) == Ord("SECRET_KEY_" \o str_int(timestamp \div 3600))

\* the plaintext the specification names: p[i] = c[i] XOR key[i mod len(key)]
ReferencePlain(c, key) ==
    [i \in 1..Len(c) |-> xor(c[i], key[((i - 1) % Len(key)) + 1])]

\* _fetch_direct_url has returned, on an answer that carries an integer
\* timestamp and a string that base64-decodes
DecryptedCall ==
    /\ bunkr.direct_url # NotCalled
    /\ bunkr.response.status = "ok"
    /\ bunkr.response.timestamp.kind = "int"
    /\ bunkr.response.url.kind = "str"
    /\ b64decode(bunkr.response.url.s).ok

\* C11: the resolved URL is utf8(p) + "?n=" + percentEncode(filename), with p the
\* ciphertext XORed with the key of the timestamp's hour bucket, whenever p is
\* UTF-8; and every timestamp of the same hour bucket gives the same result
C11_XorMatchesReference ==
    DecryptedCall =>
        LET timestamp == bunkr.response.timestamp.n
            c == b64decode(bunkr.response.url.s).v
            text == utf8_decode(ReferencePlain(c, ReferenceKey(timestamp)), 1, << >>)
        IN  /\ text.ok =>
                  bunkr.direct_url = Url(text.v \o Ord("?n=") \o quote(bunkr.filename))
            /\ \A t2 \in Timestamps :
                  (t2 \div 3600 = timestamp \div 3600) =>
                      fetch_direct_url([bunkr.response EXCEPT !.timestamp = JInt(t2)],
                                       bunkr.filename) = bunkr.direct_url

\* a ciphertext longer than the constant part of the key, decrypted with a
\* timestamp of the bucket that is not the one it was encrypted for, and a
\* filename that needs escaping
C11_Witness ==
    /\ bunkr.response.status = "ok"
    /\ bunkr.response.timestamp = JInt(1762304399)
    /\ bunkr.response.url = JStr(CipherHead \o "+5A=")
    /\ bunkr.direct_url = Url(Ord("https://c.d/") \o <<233>> \o Ord("?n=x/y%C3%A9"))

\* RFC 4648 base64: only alphabet characters, whole quads, "=" only as the
\* last one or two characters
ValidBase64(s) ==
    /\ Len(s) % 4 = 0
    /\ \A i \in 1..Len(s) :
          \/ IndexIn(CharAt(s, i), B64Alphabet, 1) # 0
          \/ /\ CharAt(s, i) = "="
             /\ i >= Len(s) - 1
             /\ (i = Len(s) - 1 => CharAt(s, Len(s)) = "=")

\* a required field of the answer is missing or malformed
MalformedAnswer ==
    \/ bunkr.response.status # "ok"
    \/ bunkr.response.timestamp.kind # "int"
    \/ bunkr.response.url.kind # "str"
    \/ ~ValidBase64(bunkr.response.url.s)
    \/ ~utf8_decode(ReferencePlain(b64decode(bunkr.response.url.s).v,
                                   ReferenceKey(bunkr.response.timestamp.n)),
                    1, << >>).ok

\* C12: when a required field is missing or malformed (no timestamp or url,
\* invalid base64, plaintext that is not UTF-8) the resolver returns None for
\* the item
C12_MalformedGivesNone ==
    (bunkr.direct_url # NotCalled /\ MalformedAnswer) => bunkr.direct_url = NoUrl

(***************************************************************************)
(* Claims about sanitize_for_filesystem                                    *)
(***************************************************************************)
\* the characters < > : " / \ | ? *
ForbiddenChars == "<>:\"/\\|?*"

ExpectedSubdirectory(item) ==
    IF ~flat /\ item.collection_name # ""
    THEN BaseDir \o "/" \o sanitize_for_filesystem(item.collection_name)
    ELSE BaseDir

ExpectedDestination(item) ==
    ExpectedSubdirectory(item) \o "/" \o sanitize_for_filesystem(item.filename)

C15_PreviewBoundary ==
    [][ api.pc = "gate" =>
          /\ (api.total_size = MAX_SIZE_BYTES =>
                 api'.pc = "download" /\ api'.response = "pending")
          /\ (api.total_size = MAX_SIZE_BYTES + 1 =>
                 api'.pc = "done" /\ api'.response = "preview") ]_vars

\* two items that add up to exactly the threshold have passed the gate
C15_Witness ==
    /\ api.pc = "download"
    /\ api.sizes = <<MAX_SIZE_BYTES - 1, 1>>
    /\ api.total_size = MAX_SIZE_BYTES

\* the probe ran over the whole list
ProbeCompleted == api.i = api.n /\ api.pc # "probe"

RECURSIVE SumOf(_)
SumOf(seq) == IF seq = << >> THEN 0 ELSE Head(seq) + SumOf(Tail(seq))

\* a HEAD request that timed out, failed, returned a non-2xx status, or
\* returned no content-length or one that is no integer
ProbeUndetermined(head) ==
    \/ head.kind \in {"timeout", "connection_error"}
    \/ /\ head.kind = "response"
       /\ \/ head.status \notin 200..299
          \/ ~head.content_length.present
          \/ ~int_of_str(head.content_length.value).ok

\* C17: an item whose HEAD request times out, errors, returns a non-2xx status
\* or a missing or unreadable content-length contributes size 0; the probe over
\* the list always completes, with a total equal to the sum of the item sizes
C17_ProbeTolerant ==
    /\ api.response # "500 Unable to verify file sizes"
    /\ api.total_size = SumOf(api.sizes)
    /\ (api.i > 0 /\ ProbeUndetermined(api.head)) => api.sizes[api.i] = 0

(***************************************************************************)
(* Claims about the errors of extract(url)                                 *)
(***************************************************************************)
\* C18: iterating extract(url) raises ValueError for an empty or unparseable
\* URL and UnsupportedDomainError when no plugin matches, before any plugin is
\* constructed; every error raised while the plugin is constructed or iterated
\* surfaces as ExtractionError wrapping the original cause
C18_ExtractionErrorMapping ==
    extract_call.pc = "raised" =>
        /\ extract_call.phase = "validate" =>
              /\ extract_call.plugin = None
              /\ extract_call.raised.cause = "none"
              /\ extract_call.raised.type =
                    IF strip(extract_call.url) = ""
                       \/ urlparse_netloc(strip(extract_call.url)) = ""
                    THEN "ValueError" ELSE "UnsupportedDomainError"
        /\ extract_call.phase \in {"construct", "iterate"} =>
              extract_call.raised = [type |-> "ExtractionError",
                                     cause |-> extract_call.original]

(***************************************************************************)
(* Claims about the retry policy of the session                            *)
(***************************************************************************)
\* the methods RFC 9110 defines as idempotent
IdempotentMethods == {"GET", "HEAD", "PUT", "DELETE", "OPTIONS", "TRACE"}

\* C19: a request is retried only when the response status is one of 429, 500,
\* 502, 503, 504, only for idempotent methods, and at most 3 times before the
\* failure surfaces to the caller
C19_RetryPolicy ==
    /\ \A outcome \in session.retried_after :
          /\ outcome.kind = "response"
          /\ outcome.status \in {429, 500, 502, 503, 504}
          /\ session.method \in IdempotentMethods
    /\ session.attempts <= 1 + 3

(***************************************************************************)
(* Claims about extract_items                                              *)
(***************************************************************************)
\* C20: extract_items stops pulling as soon as the number of collected items
\* exceeds MAX_FILE_COUNT, so it never pulls more than MAX_FILE_COUNT + 1 items,
\* and raises ValueError; it raises ValueError when zero items are found; any
\* list it returns has between 1 and MAX_FILE_COUNT items
C20_MaxItemFailFast ==
    /\ collect.pulled <= MAX_FILE_COUNT + 1
    /\ collect.items > MAX_FILE_COUNT => collect.result = "ValueError: Too many files"
    /\ collect.result = "ValueError: Too many files" =>
          collect.pulled = MAX_FILE_COUNT + 1
    /\ (collect.source = [count |-> 0, ends |-> "return"]
        /\ collect.result \notin {"pending", "none"}) =>
          collect.result = "ValueError: No downloadable items found"
    /\ collect.result = "list" =>
          /\ collect.returned \in 1..MAX_FILE_COUNT
          /\ collect.returned = collect.source.count

\* a source with more items than the limit plus one: the collector stopped at
\* the first item beyond the limit and left the rest unpulled
C20_Witness ==
    /\ collect.source.count = MAX_FILE_COUNT + 3
    /\ collect.pulled = MAX_FILE_COUNT + 1
    /\ collect.result = "ValueError: Too many files"

(***************************************************************************)
(* Claims about the legacy download()                                      *)
(***************************************************************************)
\* C21: download(url, output_dir) returns True if at least one file was
\* successfully downloaded and False otherwise, including when the plugin yields
\* no items at all or when every item fails
C21_TrueIffSomeFileDownloaded ==
    legacy.returned # "none" =>
       (legacy.returned = "True" <=>
           /\ legacy.prepare = "ok"
           /\ \E k \in 1..Len(legacy.files) : legacy.files[k] = "true")

(***************************************************************************)
(* Claims about DownloadItem                                               *)
(***************************************************************************)
\* C22: constructing a DownloadItem with an empty download_url or an empty
\* filename fails with ValueError, so every DownloadItem that exists has a
\* non-empty download_url and a non-empty filename
C22_ConstructionInvariant ==
    /\ (/\ constructed.calls > 0
        /\ \/ constructed.args.download_url = PyStr("")
           \/ constructed.args.filename = PyStr("")) =>
          /\ constructed.outcome \in {"ValueError: download_url cannot be empty",
                                      "ValueError: filename cannot be empty"}
          /\ constructed.args \notin constructed.objects
    /\ \A object \in constructed.objects :
          /\ object.download_url.type = "str" /\ Len(object.download_url.s) > 0
          /\ object.filename.type = "str" /\ Len(object.filename.s) > 0

\* a call with a usable URL and an empty filename was refused after another
\* object had been constructed
C22_Witness ==
    /\ constructed.args = [download_url |-> PyStr("a"), filename |-> PyStr("")]
    /\ constructed.outcome = "ValueError: filename cannot be empty"
    /\ constructed.objects # {}

(***************************************************************************)
(* Claims about Bunkr's page fetches                                       *)
(***************************************************************************)
\* C23: when the first page fetch of a Bunkr album or file URL fails with a
\* connection error, a timeout, or an HTTP 404/500/503 response, iterating the
\* extractor raises the corresponding requests exception (ConnectionError,
\* Timeout, HTTPError) rather than ending with zero items
C23_InitialFetchErrorsPropagate ==
    (/\ bunkr_run.pc = "done"
     /\ bunkr_run.path \in {"/a/x", "/f/x"}
     /\ bunkr_run.first \in {"ConnectionError", "Timeout", "404", "500", "503"}) =>
        bunkr_run.raised = (IF bunkr_run.first \in {"404", "500", "503"}
                            THEN "HTTPError" ELSE bunkr_run.first)

(***************************************************************************)
(* Claims about ThothubTO's permutation cipher                             *)
(***************************************************************************)
\* the decimal digit a character stands for, or the default for any other
\* character and for a position past the end (index is 0-based)
DigitAt(s, index, default) ==
    IF index >= Len(s) THEN default
    ELSE LET d == IndexIn(CharAt(s, index + 1), Digits, 1)
         IN  IF d = 0 THEN default ELSE d - 1

RECURSIVE NumberOf(_, _, _)
\* the number written by the characters lo..hi (0-based, inclusive) of f
NumberOf(f, lo, hi) ==
    IF hi < lo THEN 0
    ELSE (NumberOf(f, lo, hi - 1) * 10) + DigitAt(f, hi, 0)

RECURSIVE ReferenceF(_, _)
\* f: a non-zero digit d gives d, "0" or a non-digit gives 1
ReferenceF(code, index) ==
    IF index >= Len(code) THEN ""
    ELSE LET d == DigitAt(code, index, 0)
         IN  CharAt(Digits, (IF d = 0 THEN 1 ELSE d) + 1) \o ReferenceF(code, index + 1)

RECURSIVE ReferenceKeyFrom(_, _, _, _)
\* the key digits from the t-th on, t = 4 * g + (h - 1)
ReferenceKeyFrom(code, f2, j, t) ==
    IF t >= (j + 1) * 4 THEN ""
    ELSE LET g == t \div 4
             h == (t % 4) + 1
             n == DigitAt(code, g + h, 0) + DigitAt(f2, g % Len(f2), 0)
         IN  CharAt(Digits, (IF n >= 10 THEN n - 10 ELSE n) + 1)
             \o ReferenceKeyFrom(code, f2, j, t + 1)

ReferenceThothubKey(code) ==
    LET f == ReferenceF(code, 1)
        j == Len(f) \div 2
        k == NumberOf(f, 0, j)
        l == NumberOf(f, j, Len(f) - 1)
        f2 == str_nat((abs(l - k) + abs(k - l)) * 2)
    IN  ReferenceKeyFrom(code, f2, j, 0)

KeyStepDone == cipher.pc \in {"hash", "done"} /\ cipher.code \in LicenseCodes

\* C24: the derived key equals the specified algorithm for every license code:
\* f from the characters after the sigil (non-zero digit d -> d, "0" or
\* non-digit -> 1), j = len(f) // 2, k = int(f[0..j]), l = int(f[j..]),
\* f2 = str((|l-k| + |k-l|) * 2), and the key is the concatenation for g = 0..j,
\* h = 1..4 of (digitAt(license_code, g+h, default 0) + digitAt(f2, g mod len(f2)))
\* reduced by 10 when >= 10
C24_KeyMatchesAlgorithm ==
    (KeyStepDone /\ Len(cipher.code) >= 2) =>
        /\ cipher.key.ok
        /\ cipher.key.v = ReferenceThothubKey(cipher.code)

RECURSIVE AllDecimalDigits(_)
AllDecimalDigits(s) ==
    s = "" \/ (IndexIn(CharAt(s, 1), Digits, 1) # 0
               /\ AllDecimalDigits(SubSeq(s, 2, Len(s))))

\* C25: for every license code with at least one character after the sigil the
\* derived key has length exactly (j+1)*4 with j = len(f) // 2, and every
\* character of the key is a single decimal digit 0-9
C25_KeyShape ==
    (KeyStepDone /\ Len(cipher.code) >= 2) =>
        /\ cipher.key.ok
        /\ Len(cipher.key.v) = (((Len(cipher.code) - 1) \div 2) + 1) * 4
        /\ AllDecimalDigits(cipher.key.v)

\* sum of the digits of key from the 0-based position k to its end
KeyTailSum(key, k) ==
    LET positions == {p \in k..(Len(key) - 1) : TRUE}
        digit(p) == DigitAt(key, p, 0)
        F[S \in SUBSET positions] ==
            IF S = {} THEN 0
            ELSE LET p == CHOOSE q \in S : TRUE IN digit(p) + F[S \ {p}]
    IN  F[positions]

RECURSIVE ReferencePermutation(_, _, _)
\* the buffer, a function on 0..31, after the steps k, k-1, ..., 0
ReferencePermutation(buffer, key, k) ==
    IF k < 0 THEN buffer
    ELSE LET l == (k + KeyTailSum(key, k)) % 32
         IN  ReferencePermutation([buffer EXCEPT ![k] = buffer[l], ![l] = buffer[k]],
                                  key, k - 1)

RECURSIVE Joined(_, _)
Joined(buffer, from) ==
    IF from > 31 THEN "" ELSE buffer[from] \o Joined(buffer, from + 1)

ReferenceHash(h, key) ==
    LET buffer == [p \in 0..31 |-> CharAt(h, p + 1)]
    IN  Joined(ReferencePermutation(buffer, key, 31), 0)

HashStepDone == cipher.pc = "done" /\ cipher.key.ok /\ cipher.h \in Hashes

\* C26: the deobfuscated hash is obtained by visiting positions k = 31 down to 0
\* of the 32-character prefix and swapping, at each step, the characters
\* currently at k and (k + sum of the digits of key[k:]) mod 32 in the already
\* partially permuted buffer; characters after position 31 keep their
\* positions, and the result has the same length as the input
C26_HashPermutation ==
    HashStepDone =>
        /\ Len(cipher.out) = Len(cipher.h)
        /\ Len(cipher.h) >= 32 =>
              /\ SubSeq(cipher.out, 1, 32) = ReferenceHash(cipher.h, cipher.key.v)
              /\ \A p \in 33..Len(cipher.h) : CharAt(cipher.out, p) = CharAt(cipher.h, p)

\* a full-length key has permuted a hash that is longer than 32 characters, and
\* the prefix has changed
C26_Witness ==
    /\ HashStepDone
    /\ Len(cipher.key.v) = 32
    /\ Len(cipher.h) > 32
    /\ SubSeq(cipher.out, 1, 32) # SubSeq(cipher.h, 1, 32)

(***************************************************************************)
(* Claims about the legacy Cyberdrop throttle                              *)
(***************************************************************************)
\* C27: for one Cyberdrop instance and every sequence of _get_file_info calls,
\* successful or failing, the request of each call is issued at least
\* rate_limit_seconds, on the monotonic clock, after the previous call on that
\* instance finished; the throttle state is local to the instance: an instance
\* that has made no call still has its initial _last_api_call_time
C27_PerInstanceRateLimit ==
    /\ (throttle.outcome # "none" /\ throttle.had_previous) =>
          throttle.issued_at - throttle.since >= throttle.rate[throttle.req_inst]
    /\ \A i \in Instances :
          /\ throttle.called[i] => throttle.last[i] <= throttle.clock
          /\ ~throttle.called[i] => throttle.last[i] = 0

\* a later call on instance 1 slept for the full limit and then failed, while
\* instance 2 has made no call
C27_Witness ==
    /\ throttle.pc = "idle"
    /\ throttle.req_inst = 1
    /\ throttle.had_previous
    /\ throttle.outcome = "RequestException"
    /\ throttle.rate[1] = 2
    /\ throttle.since > 0
    /\ throttle.issued_at = throttle.since + 2
    /\ ~throttle.called[2]

(***************************************************************************)
(* Claims about path containment                                           *)
(***************************************************************************)
RootOf(kind) == IF kind = "cli" THEN BaseDir ELSE TempDir

\* C28: for every item, whatever its filename and collection_name (including
\* "..", ".", names made only of separators, or names with leading or trailing
\* dots), the destination path computed by the orchestrator is a strict
\* descendant of the destination root
C28_PathContainment ==
    contain.pc = "computed" =>
        is_strictly_inside(contain.dest, RootOf(contain.kind))

(***************************************************************************)
(* Claims about the files download_items returns                           *)
(***************************************************************************)
\* C29: every path in the list returned by download_items refers to a file that
\* exists in the temp directory at the moment the list is returned, after any
\* sequence of per-item successes and failures, including batches in which two
\* items have the same filename
C29_ReturnedFilesExist ==
    (orchestrator = "api" /\ pc = "done" /\ result = "success") =>
        \A k \in 1..Len(downloaded) : fs[downloaded[k]] # Absent

(***************************************************************************)
(* Claims about the API whitelist                                          *)
(***************************************************************************)
\* C30: every domain in the API whitelist ALLOWED_DOMAINS is resolved by
\* get_plugin_class to a plugin class, never None
C30_WhitelistResolvable ==
    (rq.op = "get_plugin_class" /\ rq.arg \in ALLOWED_DOMAINS /\ rs # Pending) =>
        rs # None

====
